---- MODULE Spec2Model ----
(***************************************************************************)
(* A model of the cost-sharing client: the per-member balance computation  *)
(* of the group view (computeMemberBalance), the group view's realtime and *)
(* fetch reconciliation (GroupDetails), its chat, expense and member      *)
(* forms, the Dashboard's group list, create form and logout, the login,   *)
(* the shared socket of socket.ts and the credential stores of             *)
(* utils/auth.js.                                                          *)
(*                                                                         *)
(* Money is counted in integer thousandths of the currency unit ("mills"), *)
(* so that an amount may carry a sub-cent part and rounding to 2 decimals  *)
(* (a multiple of 10 mills) is visible.  Arithmetic is exact decimal        *)
(* arithmetic: the binary representation error of the doubles the program  *)
(* computes with is not modelled.                                          *)
(***************************************************************************)
EXTENDS Integers, Sequences, FiniteSets, TLC

\* ------------------------------------------------------------------ bounds
MaxExpenses == 2        \* expenses in a snapshot of the balance specification
MaxChanges  == 2        \* changes made to the server's group g1
MaxInFlight == 2        \* HTTP requests not yet answered and delivered
MaxBuffered == 1        \* emits buffered while the socket is not connected
MaxAmount   == 60       \* mills of the small amounts of a one-expense snapshot

\* ------------------------------------------------------------- value sets
\* A group snapshot as the view holds it.  present = FALSE is the null of
\* useState<Group | null>(null); hasExpenses = FALSE is a snapshot whose
\* expenses field is absent (group?.expenses is undefined).
GroupOf(id, members, expenses, invites) ==
  [present |-> TRUE, _id |-> id, members |-> members, hasExpenses |-> TRUE,
   expenses |-> expenses, invites |-> invites]
NoGroup ==
  [present |-> FALSE, _id |-> "-", members |-> {}, hasExpenses |-> FALSE,
   expenses |-> <<>>, invites |-> {}]
BalGroup == "g1"        \* the group of the balance specification

\* A member reference as it appears in paidBy and splitAmong: a populated
\* record, a bare identifier, or nothing (paidBy null/undefined).
Rec(i)  == [kind |-> "record", id |-> i]
Bare(i) == [kind |-> "id", id |-> i]
NoRef   == [kind |-> "none", id |-> "-"]

MemberIds  == {"a", "b", "c"}
UnknownId  == "z"
BalanceIds == MemberIds \cup {UnknownId}

\* Amounts in mills: sub-cent values (4, 5), and values whose division by
\* 2 or 3 rounds down (1000/3), rounds up (2000/3) or is exact.
Amounts == {4, 5, 1000, 2000}
Payers  == {NoRef, Rec("a"), Bare("b"), Rec("c")}
Splits  == { <<>>,
             <<Rec("a")>>,
             <<Rec("a"), Bare("b")>>,
             <<Bare("b"), Rec("a"), Rec("c")>> }

\* Credentials, users, groups of the realtime specification.
NoVal   == "null"                       \* getItem() of an absent key
NoCred  == [user |-> NoVal, token |-> NoVal]
Me      == "u1"                         \* the _id of the user who logs in here
Users   == {"u1", "u2"}                 \* the accounts of this browser
Tokens  == {"t1", "t2"}
\* JSON.stringify of a user record, and JSON.parse of such a string.
JSONstringify(user) ==
  CASE user = "u1" -> "{_id:u1}"
    [] user = "u2" -> "{_id:u2}"
JSONparse(str) ==
  CASE str = "{_id:u1}" -> "u1"
    [] str = "{_id:u2}" -> "u2"
\* What a store holds once setAuthData(user, token) has written it.
Stored(user, token) == [user |-> JSONstringify(user), token |-> token]
MyCred  == Stored(Me, "t1")
OtherCred == Stored("u2", "t2")         \* another account of this browser
Senders == {"u1", "u2"}                 \* userId of chat messages
Groups  == {"g1", "g2"}
NewGroup  == "g3"                       \* the _id the server gives a created group
GroupList == <<"g1", "g2", NewGroup>>   \* the order the server lists groups in
NoGid   == "-"
EventNames ==
  {"newMessage", "expenseAdded", "memberAdded", "memberRemoved", "inviteCancelled"}

\* The form state of a view that has just mounted.
NoForm ==
  [newMessage |-> "", description |-> "", amount |-> "", isAddingExpense |-> FALSE,
   newMemberEmail |-> "", newMemberName |-> "", addingMember |-> FALSE,
   showAddMember |-> FALSE,
   groupName |-> "", members |-> <<"">>, isCreating |-> FALSE,
   showCreateForm |-> FALSE, loginLoading |-> FALSE]

\* The body of a request, and the local variables an async function holds
\* across its awaits.
NoBody  == [description |-> "", amount |-> 0, split |-> {}, email |-> "", name |-> ""]
\* The member entries the create-group form is given, and the most of them.
MemberInputs == {" A@x.io ", "a@b"}
MaxMembers   == 2
NoFrame == [todo |-> <<>>, newGroup |-> NoGid, memberAddedCount |-> 0,
            memberErrors |-> <<>>, filtered |-> 0]

\* The expense the server adds as its n-th one.
SrvExpense(n) ==
  [_id |-> n, amount |-> 1000, paidBy |-> Rec("a"), splitAmong |-> <<Rec("a")>>]

VARIABLES
  \* utils/auth.js: the two browser stores
  session,    \* sessionStorage: [user, token]
  local,      \* localStorage:   [user, token]
  \* the router and the mounted view
  route,      \* "login" | "dashboard" | "group"
  groupId,    \* useParams().groupId of the group view, or NoGid
  viewUserId, \* currentUserId of the last committed render of the group view
  effect,     \* the socket effect's last run: registered handlers to clean up
  group,      \* GroupDetails: the group snapshot (useState group)
  messages,   \* GroupDetails: useState messages
  loading,    \* GroupDetails: useState loading
  groups,     \* Dashboard: useState groups (the ids listed, in order)
  isLoading,  \* Dashboard: useState isLoading
  balance,    \* what the members list shows: member id -> {paid, share, net}
  \* src/socket.ts: the one shared socket
  sock,       \* "disconnected" | "connecting" | "connected"
  listeners,  \* event name -> sequence of registered handlers
  sendBuffer, \* emits made while not connected, sent on connect
  \* the server and the network
  srv,        \* group id -> the server's members, expenses, invites, messages
  changes,    \* how many changes the server's g1 has seen
  rooms,      \* the group rooms the server holds this socket in
  inbox,      \* events in flight to this socket, in order
  fetches,    \* HTTP requests in flight: sent, or answered and on the way back
  \* what the last step did (toasts, navigations, emits, connects, fetch starts)
  last,
  \* history of the mounted view: told = one of its handlers has been handed
  \* an event of the group it shows that calls for a re-fetch
  hist,
  \* the form state of the mounted view (GroupDetails: chat input, expense
  \* form, member form; Dashboard: create-group form), and the timers set
  form,
  timers

syncVars == <<session, local, route, groupId, viewUserId, effect, messages,
              loading, groups, isLoading, sock, listeners, sendBuffer, srv,
              changes, rooms, inbox, fetches, last, hist, form, timers>>
balVars == <<group, balance>>
vars    == <<session, local, route, groupId, viewUserId, effect, group,
             messages, loading, groups, isLoading, balance, sock, listeners,
             sendBuffer, srv, changes, rooms, inbox, fetches, last, hist,
             form, timers>>

\* ------------------------------------------------------------ arithmetic
Abs(x) == IF x < 0 THEN -x ELSE x

\* Number.prototype.toFixed(2) followed by parseFloat, on the rational
\* num/den mills (den > 0): the nearest multiple of 10 mills; of two equally
\* near ones toFixed picks the larger n for the magnitude, and the sign is
\* put back afterwards.
toFixed2(num, den) ==
  LET n == (2 * Abs(num) + 10 * den) \div (20 * den)
  IN  IF num < 0 THEN -(10 * n) ELSE 10 * n

\* ------------------------------------------------------- balance engine
\* variant: any populated payer counts as the member
isPayer_anyRecord(e, memberId) ==
  \/ e.paidBy.kind = "record"
  \/ e.paidBy.kind = "id" /\ e.paidBy.id = memberId

\* e.paidBy?._id === memberId || e.paidBy === memberId
isPayer(e, memberId) ==
  \/ e.paidBy.kind = "record" /\ e.paidBy.id = memberId
  \/ e.paidBy.kind = "id" /\ e.paidBy.id = memberId

\* e.splitAmong.some((u) => u._id === memberId || u === memberId)
inSplit(e, memberId) ==
  \E i \in 1..Len(e.splitAmong) :
     \/ e.splitAmong[i].kind = "record" /\ e.splitAmong[i].id = memberId
     \/ e.splitAmong[i].kind = "id" /\ e.splitAmong[i].id = memberId

\* parseFloat((e.amount / numSplit).toFixed(2)), numSplit > 0
individualShare_unrounded(e) == e.amount \div Len(e.splitAmong)

\* variant: the quotient cut to whole cents instead of rounded
individualShare_truncated(e) == 10 * ((e.amount \div Len(e.splitAmong)) \div 10)

individualShare(e) == toFixed2(e.amount, Len(e.splitAmong))

\* variant: an expense nobody splits is charged whole to the member
forEachBody_chargesEmptySplit(acc, e, memberId) ==
  IF Len(e.splitAmong) = 0 THEN <<acc[1], acc[2] + e.amount>>
  ELSE << IF isPayer(e, memberId) THEN acc[1] + e.amount ELSE acc[1],
          IF inSplit(e, memberId) THEN acc[2] + individualShare(e) ELSE acc[2] >>

\* One turn of group.expenses.forEach: acc is <<paid, share>>.
forEachBody(acc, e, memberId) ==
  IF Len(e.splitAmong) = 0 THEN acc
  ELSE << IF isPayer(e, memberId) THEN acc[1] + e.amount ELSE acc[1],
          IF inSplit(e, memberId) THEN acc[2] + individualShare(e) ELSE acc[2] >>

RECURSIVE forEachExpense(_, _, _)
forEachExpense(acc, expenses, memberId) ==
  IF expenses = <<>> THEN acc
  ELSE forEachExpense(forEachBody(acc, Head(expenses), memberId),
                      Tail(expenses), memberId)

netOf_unrounded(paid, share) == paid - share

netOf(paid, share) == toFixed2(paid - share, 1)

computeMemberBalance(memberId, g) ==
  IF ~g.present \/ ~g.hasExpenses
    THEN [paid |-> 0, share |-> 0, net |-> 0]
    ELSE LET acc == forEachExpense(<<0, 0>>, g.expenses, memberId)
         IN  [paid |-> acc[1], share |-> acc[2], net |-> netOf(acc[1], acc[2])]

\* The badge beside a member: net > 0 green "+", net < 0 red "-", else Settled.
netBadge(net) ==
  IF net = 0 THEN "Settled" ELSE IF net > 0 THEN "owed" ELSE "owes"

\* The members list calls computeMemberBalance for every member on each render.
Render(g) == [m \in BalanceIds |-> computeMemberBalance(m, g)]

\* ============================================================ the client
\* Every handler below is a function from the world (the values of all the
\* variables) to the world after it; an action applies one with Set.
W == [session |-> session, local |-> local, route |-> route, groupId |-> groupId,
      viewUserId |-> viewUserId, effect |-> effect, group |-> group,
      messages |-> messages, loading |-> loading, groups |-> groups,
      isLoading |-> isLoading, sock |-> sock, listeners |-> listeners,
      sendBuffer |-> sendBuffer, srv |-> srv, changes |-> changes, rooms |-> rooms,
      inbox |-> inbox, fetches |-> fetches, last |-> last, hist |-> hist,
      form |-> form, timers |-> timers]

\* The record of one step: which operation ran and what it let out.
\*   toasts   the notifications surfaced, in order
\*   nav      the targets navigate() was called with, in order
\*   emits    the socket.emit calls, in order
\*   connects the socket.connect() calls
\*   calls    the fetchGroupData() invocations
\*   dirty    a state setter of the mounted view changed its state (re-render)
\*   stale    an HTTP continuation ran for a view that was no longer mounted,
\*            or no longer showing the group the request was made for
\*   got      the HTTP status an HTTP continuation ran with (0: none ran)
\*   noToken  the socket effect ran and found no token
\*   log      the calls made on the socket, in order: "connect", the event
\*            name of an emit, "on" for a registration
\*   args     the arguments setAuthData was called with
\*   frame    the locals handleCreateGroup had when it came to its end
StepOf(op) ==
  [op |-> op, toasts |-> <<>>, nav |-> <<>>, emits |-> <<>>, connects |-> 0,
   calls |-> 0, dirty |-> FALSE, stale |-> FALSE, got |-> 0, noToken |-> FALSE,
   log |-> <<>>, args |-> NoCred, frame |-> NoFrame, index |-> 0]
Begin(op) == [W EXCEPT !.last = StepOf(op)]

Set(w) ==
  /\ Len(w.fetches) <= MaxInFlight
  /\ Len(w.sendBuffer) <= MaxBuffered
  /\ session' = w.session /\ local' = w.local /\ route' = w.route
  /\ groupId' = w.groupId /\ viewUserId' = w.viewUserId
  /\ effect' = w.effect /\ group' = w.group /\ messages' = w.messages
  /\ loading' = w.loading /\ groups' = w.groups /\ isLoading' = w.isLoading
  /\ sock' = w.sock /\ listeners' = w.listeners /\ sendBuffer' = w.sendBuffer
  /\ srv' = w.srv /\ changes' = w.changes /\ rooms' = w.rooms
  /\ inbox' = w.inbox /\ fetches' = w.fetches /\ last' = w.last
  /\ hist' = w.hist /\ form' = w.form /\ timers' = w.timers
  /\ UNCHANGED balance

\* ------------------------------------------------------- utils/auth.js
\* variant: only a missing user stops the write
setAuthData_requiresUser(w, user, token) ==
  LET w1 == [w EXCEPT !.last.args = [user |-> user, token |-> token]]
  IN  IF user = NoVal THEN w1
      ELSE [w1 EXCEPT !.session = [user |-> JSONstringify(user), token |-> token],
                      !.local   = [user |-> JSONstringify(user), token |-> token]]

\* variant: only the durable store is written
setAuthData_durableOnly(w, user, token) ==
  LET w1 == [w EXCEPT !.last.args = [user |-> user, token |-> token]]
  IN  IF user = NoVal \/ token = NoVal THEN w1
      ELSE [w1 EXCEPT !.local = [user |-> JSONstringify(user), token |-> token]]

setAuthData(w, user, token) ==
  LET w1 == [w EXCEPT !.last.args = [user |-> user, token |-> token]]
  IN  IF user = NoVal \/ token = NoVal THEN w1
      ELSE LET userStr == JSONstringify(user)
           IN  [w1 EXCEPT !.session = [user |-> userStr, token |-> token],
                          !.local   = [user |-> userStr, token |-> token]]

\* variant: the durable store is read first
getAuthToken_durableFirst(w) ==
  IF w.local.token # NoVal THEN w.local.token ELSE w.session.token

getAuthToken(w) ==
  IF w.session.token # NoVal THEN w.session.token ELSE w.local.token

getAuthUser(w) ==
  LET userStr == IF w.session.user # NoVal THEN w.session.user ELSE w.local.user
  IN  IF userStr # NoVal THEN JSONparse(userStr) ELSE NoVal

\* variant: only the session-scoped store is emptied
clearAuthData_sessionOnly(w) == [w EXCEPT !.session = NoCred]

clearAuthData(w) == [w EXCEPT !.session = NoCred, !.local = NoCred]

\* ------------------------------------------- toast, navigate, the socket
toast(w, kind, what, arg) ==
  [w EXCEPT !.last.toasts = Append(@, [kind |-> kind, what |-> what, arg |-> arg])]

navigate(w, to) == [w EXCEPT !.last.nav = Append(@, to)]

\* The server sends an event to the sockets of a room.
BroadcastTo(w, room, name, payload) ==
  IF room \in w.rooms /\ w.sock = "connected"
    THEN [w EXCEPT !.inbox = Append(@, [name |-> name, room |-> room,
                                        payload |-> payload])]
    ELSE w

\* The server's side of an emit: joinGroup puts the socket in the room,
\* sendMessage is stored and sent to the room as newMessage.
serverReceives(w, e) ==
  IF e.ev = "joinGroup" THEN [w EXCEPT !.rooms = @ \cup {e.arg}]
  ELSE IF e.ev = "sendMessage"
    THEN LET m == [user |-> e.arg.user, userId |-> e.arg.userId,
                   message |-> e.arg.message, time |-> e.arg.time]
         IN  BroadcastTo([w EXCEPT !.srv[e.arg.groupId].messages = Append(@, m)],
                         e.arg.groupId, "newMessage", m)
  ELSE w

\* socket.connect(): opens the transport unless it is open or opening.
socketConnect(w) ==
  [w EXCEPT !.last.connects = @ + 1, !.last.log = Append(@, "connect"),
            !.sock = IF @ = "disconnected" THEN "connecting" ELSE @]

\* socket.emit(ev, arg): sent at once when connected, else buffered.
socketEmit(w, ev, arg) ==
  LET e  == [ev |-> ev, arg |-> arg]
      w1 == [w EXCEPT !.last.emits = Append(@, e), !.last.log = Append(@, ev)]
  IN  IF w.sock = "connected" THEN serverReceives(w1, e)
      ELSE [w1 EXCEPT !.sendBuffer = Append(@, e)]

socketOn(w, ev, h) ==
  [w EXCEPT !.listeners[ev] = Append(@, h), !.last.log = Append(@, "on")]

RECURSIVE RemoveFirst(_, _)
RemoveFirst(s, x) ==
  IF s = <<>> THEN s
  ELSE IF Head(s) = x THEN Tail(s)
  ELSE <<Head(s)>> \o RemoveFirst(Tail(s), x)

DropAt(s, i) == SubSeq(s, 1, i - 1) \o SubSeq(s, i + 1, Len(s))

\* socket.off(ev, h): removes that function from the event's listeners.
socketOff(w, ev, h) == [w EXCEPT !.listeners[ev] = RemoveFirst(@, h)]

\* ------------------------------------------------ GroupDetails: setters
\* A closure (a handler, the continuation of a request) belongs to one
\* component instance; live says whether that instance is still the mounted
\* one.  The setters of an instance that is gone change nothing.
setLoading(w, live, v) ==
  IF live /\ w.loading # v
    THEN [w EXCEPT !.loading = v, !.last.dirty = TRUE] ELSE w

setGroup(w, live, g) ==
  IF live THEN [w EXCEPT !.group = g, !.last.dirty = TRUE] ELSE w

setMessages(w, live, ms) ==
  IF live THEN [w EXCEPT !.messages = ms, !.last.dirty = TRUE] ELSE w

\* ---------------------------------------- GroupDetails: fetchGroupData
Request(kind, gid, token) ==
  [kind |-> kind, gid |-> gid, live |-> TRUE, token |-> token, phase |-> "sent",
   status |-> 0, data |-> NoGroup, msgs |-> <<>>, list |-> <<>>,
   body |-> NoBody, frame |-> NoFrame]

\* The part of fetchGroupData up to the await: h is the closure it runs in.
fetchGroupData(w, h) ==
  LET w1    == [w EXCEPT !.last.calls = @ + 1]
      token == getAuthToken(w1)
  IN  IF token = NoVal
        THEN setLoading(navigate(w1, "login"), h.live, FALSE)
        ELSE [w1 EXCEPT !.fetches = Append(@, Request("group", h.gid, token))]

\* The continuation of fetchGroupData once the response f is in.
groupResponse(w, f) ==
  LET w0 == [w EXCEPT !.last.stale = ~(f.live /\ w.groupId = f.gid),
                      !.last.got = f.status]
  IN  IF f.status = 200
        THEN setLoading(setMessages(setGroup(w0, f.live, f.data), f.live, f.msgs),
                        f.live, FALSE)
        ELSE LET w1 == toast(w0, "error", "fetchGroup", "Failed to fetch group")
                 w2 == IF f.status = 401 THEN navigate(w1, "login") ELSE w1
             IN  setLoading(w2, f.live, FALSE)

\* ------------------------------------ GroupDetails: the realtime handlers
\* h = [live, gid, uid] is the closure of one run of the socket effect: its
\* component instance (whether still mounted), groupId and currentUserId.
NoEffect == [on |-> FALSE, h |-> [live |-> FALSE, gid |-> NoGid, uid |-> NoVal]]

\* variant: the message is put at the front of the sequence
handleNewMessage_prepends(w, h, msg) ==
  LET w1 == setMessages(w, h.live, <<msg>> \o w.messages)
  IN  IF msg.userId # h.uid
        THEN toast(w1, "info", "newMessage", msg.user) ELSE w1

handleNewMessage(w, h, msg) ==
  LET w1 == setMessages(w, h.live, Append(w.messages, msg))
  IN  IF msg.userId # h.uid
        THEN toast(w1, "info", "newMessage", msg.user) ELSE w1

HasId(expenses, id) == \E i \in 1..Len(expenses) : expenses[i]._id = id

\* variant: the expense is appended without looking for its identifier
handleExpense_appendsAlways(w, h, expense) ==
  LET w1 == toast(w, "success", "expenseAdded", "New expense")
      w2 == IF ~w1.group.present THEN w1
            ELSE setGroup(w1, h.live,
                          [w1.group EXCEPT !.hasExpenses = TRUE,
                                           !.expenses = Append(@, expense)])
  IN  fetchGroupData(w2, h)

handleExpense(w, h, expense) ==
  LET w1 == toast(w, "success", "expenseAdded", "New expense")
      w2 == IF ~w1.group.present THEN w1
            ELSE IF w1.group.hasExpenses /\ HasId(w1.group.expenses, expense._id)
              THEN w1
            ELSE setGroup(w1, h.live,
                          [w1.group EXCEPT !.hasExpenses = TRUE,
                                           !.expenses = Append(@, expense)])
  IN  fetchGroupData(w2, h)

\* variant: the second operand is never used
OrElse_firstOnly(a, b) == a

\* a || b on strings that may be absent
OrElse(a, b) == IF a # NoVal THEN a ELSE b

handleMemberAdded(w, h, data) ==
  fetchGroupData(
    toast(w, "success", "memberAdded", OrElse(data.memberName, data.memberEmail)), h)

handleMemberRemoved(w, h, data) ==
  fetchGroupData(
    toast(w, "info", "memberRemoved", OrElse(data.memberName, data.memberEmail)), h)

handleInviteCancelled(w, h, data) ==
  fetchGroupData(toast(w, "info", "inviteCancelled", data.email), h)

\* ------------------------------------------- GroupDetails: the forms
\* String.prototype.trim on the texts the forms are given.
Trim(str) ==
  CASE str = " hi "     -> "hi"
    [] str = " b@x "    -> "b@x"
    [] str = " A@x.io " -> "A@x.io"
    [] str = "  "       -> ""
    [] OTHER            -> str

\* Number(newExpense.amount), in mills, of the amounts the form is given.
NumberOf(str) ==
  CASE str = "12.5" -> 12500
    [] str = "0"    -> 0
    [] OTHER        -> 0

\* new Date().toISOString(): the client's clock.
ClientTime == 0

\* A state setter of the form state of the mounted view.
setForm(w, live, field, v) ==
  IF live /\ w.form[field] # v
    THEN [w EXCEPT !.form[field] = v,
                   !.last.dirty = @ \/ w.route = "group"]
    ELSE w

\* setNewExpense({description, amount}): a new object each time.
setNewExpense(w, live, d, a) ==
  IF live THEN [w EXCEPT !.form.description = d, !.form.amount = a,
                         !.last.dirty = TRUE]
  ELSE w

\* currentUser?.name || currentUser?.email || "Unknown"
NameOf(uid) == IF uid = NoVal THEN "Unknown" ELSE uid

\* variant: the text is sent as typed and the input is left as it is
sendMessage_keepsInput(w) ==
  IF Trim(w.form.newMessage) = "" THEN w
  ELSE socketEmit(w, "sendMessage",
                  [groupId |-> w.groupId,
                   message |-> w.form.newMessage,
                   user    |-> NameOf(w.viewUserId),
                   userId  |-> w.viewUserId,
                   time    |-> ClientTime])

sendMessage(w) ==
  IF Trim(w.form.newMessage) = "" THEN w
  ELSE LET payload == [groupId |-> w.groupId,
                       message |-> Trim(w.form.newMessage),
                       user    |-> NameOf(w.viewUserId),
                       userId  |-> w.viewUserId,
                       time    |-> ClientTime]
       IN  setForm(socketEmit(w, "sendMessage", payload), TRUE, "newMessage", "")

\* A request of the group view that changes the group; sent with whatever
\* getAuthToken() returns.
Mutation(w, kind, body) ==
  [w EXCEPT !.fetches =
     Append(@, [Request(kind, w.groupId, getAuthToken(w)) EXCEPT !.body = body])]

\* The closure a continuation calls fetchGroupData in.
ClosureOf(f) == [live |-> f.live, gid |-> f.gid, uid |-> NoVal]

\* addExpense up to the await.
addExpense(w) ==
  IF w.form.description = "" \/ w.form.amount = ""
    THEN toast(w, "error", "addExpense", "Please enter description and amount!")
  ELSE Mutation(setForm(w, TRUE, "isAddingExpense", TRUE), "addExpense",
                [NoBody EXCEPT !.description = w.form.description,
                               !.amount = NumberOf(w.form.amount),
                               !.split = IF w.group.present THEN w.group.members
                                         ELSE {}])

addExpenseResponse(w, f) ==
  LET w1 == IF f.status = 200
              THEN fetchGroupData(
                     toast(setNewExpense(w, f.live, "", ""),
                           "success", "addExpense", "Expense added successfully!"),
                     ClosureOf(f))
              ELSE toast(w, "error", "addExpense", "Failed to add expense")
  IN  setForm(w1, f.live, "isAddingExpense", FALSE)

\* handleAddMember up to the await.
handleAddMember(w) ==
  IF Trim(w.form.newMemberEmail) = ""
    THEN toast(w, "error", "addMember", "Please enter an email")
  ELSE Mutation(setForm(w, TRUE, "addingMember", TRUE), "addMember",
                [NoBody EXCEPT !.email = Trim(w.form.newMemberEmail),
                               !.name = Trim(w.form.newMemberName)])

handleAddMemberResponse(w, f) ==
  LET w1 == IF f.status = 200
              THEN LET w2 == toast(w, "success", "addMember",
                                   "Member added successfully!")
                       w3 == setForm(w2, f.live, "newMemberEmail", "")
                       w4 == setForm(w3, f.live, "newMemberName", "")
                       w5 == setForm(w4, f.live, "showAddMember", FALSE)
                   IN  fetchGroupData(w5, ClosureOf(f))
              ELSE toast(w, "error", "addMember", "Failed to add member")
  IN  setForm(w1, f.live, "addingMember", FALSE)

\* handleRemoveMember, handleCancelInvite, handleDeleteGroup up to the
\* await: confirm is the answer given to window.confirm.
handleRemoveMember(w, email, confirm) ==
  IF ~confirm THEN w
  ELSE Mutation(w, "removeMember", [NoBody EXCEPT !.email = email])

handleRemoveMemberResponse(w, f) ==
  IF f.status = 200
    THEN fetchGroupData(toast(w, "success", "removeMember",
                              "Member removed successfully"), ClosureOf(f))
    ELSE toast(w, "error", "removeMember", "Failed to remove member")

handleCancelInvite(w, email, confirm) ==
  IF ~confirm THEN w
  ELSE Mutation(w, "cancelInvite", [NoBody EXCEPT !.email = email])

handleCancelInviteResponse(w, f) ==
  IF f.status = 200
    THEN fetchGroupData(toast(w, "success", "cancelInvite",
                              "Invite cancelled successfully"), ClosureOf(f))
    ELSE toast(w, "error", "cancelInvite", "Failed to cancel invite")

handleDeleteGroup(w, confirm) ==
  IF ~confirm THEN w ELSE Mutation(w, "deleteGroup", NoBody)

handleDeleteGroupResponse(w, f) ==
  IF f.status = 200
    THEN navigate(toast(w, "success", "deleteGroup", "Group deleted successfully!"),
                  "dashboard")
    ELSE toast(w, "error", "deleteGroup", "Failed to delete group")

\* ------------------------------------- GroupDetails: the socket effect
\* variant: the cleanup forgets the expenseAdded handler
socketCleanup_keepsExpenseAdded(w) ==
  IF ~w.effect.on THEN w
  ELSE LET h  == w.effect.h
           w1 == socketOff(w, "newMessage", h)
           w3 == socketOff(w1, "memberAdded", h)
           w4 == socketOff(w3, "memberRemoved", h)
           w5 == socketOff(w4, "inviteCancelled", h)
       IN  [w5 EXCEPT !.effect = NoEffect]

\* The cleanup the effect returned: it exists only if the effect registered.
socketCleanup(w) ==
  IF ~w.effect.on THEN w
  ELSE LET h  == w.effect.h
           w1 == socketOff(w, "newMessage", h)
           w2 == socketOff(w1, "expenseAdded", h)
           w3 == socketOff(w2, "memberAdded", h)
           w4 == socketOff(w3, "memberRemoved", h)
           w5 == socketOff(w4, "inviteCancelled", h)
       IN  [w5 EXCEPT !.effect = NoEffect]

\* variant: the join is emitted before the connection is looked at
socketEffect_emitsFirst(w) ==
  IF getAuthToken(w) = NoVal
    THEN [w EXCEPT !.effect = NoEffect, !.last.noToken = TRUE]
  ELSE LET h  == [live |-> TRUE, gid |-> w.groupId, uid |-> w.viewUserId]
           w1 == socketEmit(w, "joinGroup", w.groupId)
           w2 == IF w.sock # "connected" THEN socketConnect(w1) ELSE w1
           w3 == socketOn(w2, "newMessage", h)
           w4 == socketOn(w3, "expenseAdded", h)
           w5 == socketOn(w4, "memberAdded", h)
           w6 == socketOn(w5, "memberRemoved", h)
           w7 == socketOn(w6, "inviteCancelled", h)
       IN  [w7 EXCEPT !.effect = [on |-> TRUE, h |-> h]]

socketEffect(w) ==
  IF getAuthToken(w) = NoVal
    THEN [w EXCEPT !.effect = NoEffect, !.last.noToken = TRUE]
  ELSE LET h  == [live |-> TRUE, gid |-> w.groupId, uid |-> w.viewUserId]
           w1 == IF w.sock # "connected" THEN socketConnect(w) ELSE w
           w2 == socketEmit(w1, "joinGroup", w.groupId)
           w3 == socketOn(w2, "newMessage", h)
           w4 == socketOn(w3, "expenseAdded", h)
           w5 == socketOn(w4, "memberAdded", h)
           w6 == socketOn(w5, "memberRemoved", h)
           w7 == socketOn(w6, "inviteCancelled", h)
       IN  [w7 EXCEPT !.effect = [on |-> TRUE, h |-> h]]

\* One event handed to one registered handler.
RunHandler(w0, h, ev) ==
  LET w == IF h.live /\ h.gid = ev.room /\ ev.name # "newMessage"
             THEN [w0 EXCEPT !.hist.told = TRUE] ELSE w0
  IN  CASE ev.name = "newMessage"      -> handleNewMessage(w, h, ev.payload)
        [] ev.name = "expenseAdded"    -> handleExpense(w, h, ev.payload)
        [] ev.name = "memberAdded"     -> handleMemberAdded(w, h, ev.payload)
        [] ev.name = "memberRemoved"   -> handleMemberRemoved(w, h, ev.payload)
        [] ev.name = "inviteCancelled" -> handleInviteCancelled(w, h, ev.payload)

\* The socket calls the listeners that were registered when the event came.
RECURSIVE Dispatch(_, _, _)
Dispatch(w, hs, ev) ==
  IF hs = <<>> THEN w
  ELSE Dispatch(RunHandler(w, Head(hs), ev), Tail(hs), ev)

\* ------------------------------------------------------------ Dashboard
setIsLoading(w, live, v) == IF live THEN [w EXCEPT !.isLoading = v] ELSE w

setGroups(w, live, gs) == IF live THEN [w EXCEPT !.groups = gs] ELSE w

\* fetchGroups up to the await, in the Dashboard instance that has just mounted.
fetchGroups(w) ==
  LET w1    == setIsLoading(w, TRUE, TRUE)
      token == getAuthToken(w1)
  IN  IF token = NoVal
        THEN setIsLoading(navigate(w1, "login"), TRUE, FALSE)
        ELSE [w1 EXCEPT !.fetches = Append(@, Request("groups", NoGid, token))]

\* The continuation of fetchGroups once the response f is in.
groupsResponse(w, f) ==
  LET w0 == [w EXCEPT !.last.stale = ~f.live, !.last.got = f.status]
      w1 == IF f.status = 200 THEN setGroups(w0, f.live, f.list)
            ELSE IF f.status = 401
              THEN toast(navigate(clearAuthData(w0), "login"),
                         "error", "fetchGroups", "Session expired")
            ELSE IF f.status = 404 THEN setGroups(w0, f.live, <<>>)
            ELSE setGroups(toast(w0, "error", "fetchGroups", "Failed to fetch groups"),
                           f.live, <<>>)
  IN  setIsLoading(w1, f.live, FALSE)

handleLogout(w) ==
  toast(navigate(clearAuthData(w), "login"), "success", "logout", "Logged out")

\* ------------------------------------------- Dashboard: the create form
addMember(w) == setForm(w, TRUE, "members", Append(w.form.members, ""))

\* variant: the entry is removed whatever the length of the list
removeMember_unguarded(w, index) ==
  setForm([w EXCEPT !.last.index = index], TRUE, "members",
          DropAt(w.form.members, index))

removeMember(w, index) ==
  LET w1 == [w EXCEPT !.last.index = index]
  IN  IF Len(w.form.members) > 1
        THEN setForm(w1, TRUE, "members", DropAt(w.form.members, index))
        ELSE w1

updateMember(w, index, value) ==
  setForm([w EXCEPT !.last.index = index], TRUE, "members",
          [w.form.members EXCEPT ![index] = value])

\* String.prototype.toLowerCase on the entries the form is given.
toLowerCase(str) == IF str = "A@x.io" THEN "a@x.io" ELSE str

\* variant: every entry passes
emailRegex_acceptsAll(str) == TRUE

\* /^[^\s@]+@[^\s@]+\.[^\s@]+$/.test(str) on the entries the form is given.
emailRegex(str) ==
  CASE str = "a@x.io" -> TRUE
    [] str = "a@b"    -> FALSE      \* no dot after the @
    [] OTHER          -> FALSE

\* members.filter(m => m.trim() !== "").map(m => m.trim().toLowerCase())
RECURSIVE filteredMembers(_)
filteredMembers(members) ==
  IF members = <<>> THEN <<>>
  ELSE IF Trim(Head(members)) = "" THEN filteredMembers(Tail(members))
  ELSE <<toLowerCase(Trim(Head(members)))>> \o filteredMembers(Tail(members))

\* handleCreateGroup up to its first await.
handleCreateGroup(w) ==
  IF Trim(w.form.groupName) = ""
    THEN toast(w, "error", "createGroup", "Please enter a group name")
  ELSE
    LET w1    == setForm(w, TRUE, "isCreating", TRUE)
        token == getAuthToken(w1)
        fm    == filteredMembers(w.form.members)
    IN  IF token = NoVal
          THEN setForm(navigate(w1, "login"), TRUE, "isCreating", FALSE)
        ELSE IF \E i \in 1..Len(fm) : ~emailRegex(fm[i])
          THEN setForm(toast(w1, "error", "createGroup",
                             "Please enter a valid email address"),
                       TRUE, "isCreating", FALSE)
        ELSE [w1 EXCEPT !.fetches =
                Append(@, [Request("createGroup", NoGid, token) EXCEPT
                             !.body.name = Trim(w.form.groupName),
                             !.frame = [NoFrame EXCEPT !.todo = fm,
                                                       !.filtered = Len(fm)]])]

\* "Group created successfully!" and the count of members invited.
successMessage(memberAddedCount) ==
  CASE memberAddedCount = 0 -> "Group created successfully!"
    [] memberAddedCount = 1 -> "Group created successfully! 1 member invited."
    [] memberAddedCount = 2 -> "Group created successfully! 2 members invited."
    [] OTHER                -> "Group created successfully! 3 members invited."

\* variant: the group is put in the list once more for every invitation
\* that failed
createGroupDone_addsPerFailure(w, live, fr) ==
  LET RECURSIVE Times(_, _)
      Times(x, n) == IF n = 0 THEN <<>> ELSE <<x>> \o Times(x, n - 1)
      w1 == setGroups(w, live,
                      Times(fr.newGroup, 1 + Len(fr.memberErrors)) \o w.groups)
      w2 == setForm(w1, live, "groupName", "")
      w3 == setForm(w2, live, "members", <<"">>)
      w4 == setForm(w3, live, "showCreateForm", FALSE)
      w5 == IF fr.filtered > 0 /\ Len(fr.memberErrors) > 0
              THEN [w4 EXCEPT !.timers = Append(@, fr.memberErrors)] ELSE w4
      w6 == toast(w5, "success", "createGroup",
                  successMessage(IF fr.filtered > 0 THEN fr.memberAddedCount ELSE 0))
  IN  [setForm(w6, live, "isCreating", FALSE) EXCEPT !.last.frame = fr]

\* handleCreateGroup after the loop over the members: steps 3 and 4, and
\* the finally block.
createGroupDone(w, live, fr) ==
  LET w1 == setGroups(w, live, <<fr.newGroup>> \o w.groups)
      w2 == setForm(w1, live, "groupName", "")
      w3 == setForm(w2, live, "members", <<"">>)
      w4 == setForm(w3, live, "showCreateForm", FALSE)
      w5 == IF fr.filtered > 0 /\ Len(fr.memberErrors) > 0
              THEN [w4 EXCEPT !.timers = Append(@, fr.memberErrors)] ELSE w4
      w6 == toast(w5, "success", "createGroup",
                  successMessage(IF fr.filtered > 0 THEN fr.memberAddedCount ELSE 0))
  IN  [setForm(w6, live, "isCreating", FALSE) EXCEPT !.last.frame = fr]

\* One turn of the loop over filteredMembers: the next invitation is sent
\* with the token read at the start, or the loop is over.
inviteNext(w, token, live, fr) ==
  IF fr.todo = <<>> THEN createGroupDone(w, live, fr)
  ELSE [w EXCEPT !.fetches =
          Append(@, [Request("invite", fr.newGroup, token) EXCEPT
                       !.live = live,
                       !.body.email = Trim(Head(fr.todo)),
                       !.frame = fr])]

\* The continuation of handleCreateGroup once POST /api/groups is answered.
createGroupResponse(w, f) ==
  IF f.status = 200
    THEN inviteNext(w, f.token, f.live, [f.frame EXCEPT !.newGroup = f.data._id])
  ELSE LET w1 == IF f.status = 401
                   THEN toast(navigate(clearAuthData(w), "login"),
                              "error", "createGroup", "Session expired")
                   ELSE toast(w, "error", "createGroup", "Failed to create group")
       IN  setForm(w1, f.live, "isCreating", FALSE)

\* The continuation once an invitation is answered: counted, or its error
\* kept, and the loop goes on.
inviteResponse(w, f) ==
  inviteNext(w, f.token, f.live,
             IF f.status = 200
               THEN [f.frame EXCEPT !.memberAddedCount = @ + 1, !.todo = Tail(@)]
               ELSE [f.frame EXCEPT !.memberErrors = Append(@, Head(f.frame.todo)),
                                    !.todo = Tail(@)])

\* The timeout set for the failed invitations: one warning for each.
RECURSIVE warnEach(_, _)
warnEach(w, memberErrors) ==
  IF memberErrors = <<>> THEN w
  ELSE warnEach(toast(w, "warn", "invite", Head(memberErrors)), Tail(memberErrors))

\* ------------------------------------------------ the router and React
NoHist == [told |-> FALSE]

\* The closures of the instance that is being unmounted outlive it: the
\* continuations of its requests, and any handler still registered.
Orphaned(w) ==
  [w EXCEPT
     !.fetches = [i \in 1..Len(@) |-> [@[i] EXCEPT !.live = FALSE]],
     !.listeners = [ev \in EventNames |->
                      [i \in 1..Len(@[ev]) |-> [@[ev][i] EXCEPT !.live = FALSE]]]]

\* Leaving the mounted view: the group view's socket effect is cleaned up and
\* the state of the instance is gone.
Unmount(w) ==
  IF w.route = "group"
    THEN [Orphaned(socketCleanup(w)) EXCEPT
            !.groupId = NoGid, !.viewUserId = NoVal, !.group = NoGroup,
            !.messages = <<>>, !.loading = TRUE, !.hist = NoHist,
            !.form = NoForm]
  ELSE IF w.route = "dashboard"
    THEN [Orphaned(w) EXCEPT !.groups = <<>>, !.isLoading = TRUE, !.form = NoForm]
  ELSE w

MountLogin(w) == [Unmount(w) EXCEPT !.route = "login"]

\* Mounting the Dashboard runs its effect, fetchGroups.
MountDashboard(w) ==
  LET w1 == [Unmount(w) EXCEPT !.route = "dashboard",
                               !.groups = <<>>, !.isLoading = TRUE]
      w2 == fetchGroups(w1)
  IN  IF getAuthToken(w1) = NoVal THEN MountLogin(w2) ELSE w2

\* Mounting GroupDetails for group g: first render, then its two effects in
\* the order they are written: fetchGroupData, then the socket effect.
MountGroup(w, g) ==
  LET uid == getAuthUser(w)
      w1  == [Unmount(w) EXCEPT !.route = "group", !.groupId = g,
                                !.viewUserId = uid, !.group = NoGroup,
                                !.messages = <<>>, !.loading = TRUE]
      w2  == fetchGroupData(w1, [live |-> TRUE, gid |-> g, uid |-> uid])
      w3  == socketEffect(w2)
  IN  IF getAuthToken(w1) = NoVal THEN MountLogin(w3) ELSE w3

\* The route parameter changes under the mounted GroupDetails: the instance
\* and its state stay, fetchGroupData is a new function, so both effects run
\* again (the socket effect after the cleanup of its previous run).
ChangeGroup(w, g) ==
  LET uid == getAuthUser(w)
      w1  == [socketCleanup(w) EXCEPT !.groupId = g, !.viewUserId = uid,
                                      !.hist = NoHist]
      w2  == fetchGroupData(w1, [live |-> TRUE, gid |-> g, uid |-> uid])
      w3  == socketEffect(w2)
  IN  IF getAuthToken(w1) = NoVal THEN MountLogin(w3) ELSE w3

\* A re-render of the mounted GroupDetails: currentUserId is read again, and
\* the socket effect runs again (after its cleanup) if it has changed.
Rerender(w) ==
  IF w.route = "group" /\ w.last.dirty /\ getAuthUser(w) # w.viewUserId
    THEN socketEffect([socketCleanup(w) EXCEPT !.viewUserId = getAuthUser(w)])
    ELSE w

Last(s) == s[Len(s)]

\* The end of a step: the last navigate() call takes effect, else React
\* re-renders the view whose state has changed.
Commit(w) ==
  LET w1 == IF w.last.nav = <<>> THEN Rerender(w)
            ELSE IF Last(w.last.nav) = "login"
              THEN (IF w.route = "login" THEN w ELSE MountLogin(w))
            ELSE (IF w.route = "dashboard" THEN w ELSE MountDashboard(w))
  IN  w1

\* A page load (the URL is opened or reloaded): the JavaScript memory is new,
\* socket.ts creates the socket, which connects by itself (autoConnect), the
\* old socket is gone from the server's rooms and the old page's requests
\* are abandoned.  The stores and the server keep what they hold.
Fresh(w) ==
  [w EXCEPT !.route = "login", !.groupId = NoGid, !.viewUserId = NoVal,
            !.effect = NoEffect, !.group = NoGroup, !.messages = <<>>,
            !.loading = TRUE, !.groups = <<>>, !.isLoading = TRUE,
            !.sock = "connecting", !.listeners = [ev \in EventNames |-> <<>>],
            !.sendBuffer = <<>>, !.rooms = {}, !.inbox = <<>>, !.fetches = <<>>,
            !.hist = NoHist, !.form = NoForm, !.timers = <<>>]

LoadPage(w, target) ==
  IF target = "login" THEN Fresh(w)
  ELSE IF target = "dashboard" THEN MountDashboard(Fresh(w))
  ELSE MountGroup(Fresh(w), target)

\* ====================================================== specification Spec
\* A new tab opened on "/", which the router sends to the login page.  The
\* durable store may hold the credential of an earlier session.
SrvInit ==
  [g \in Groups \cup {NewGroup} |->
     [members  |-> {"a"},
      expenses |-> <<>>,
      invites  |-> IF g = "g1" THEN {"i@x"} ELSE {},
      messages |-> <<>>,
      exists   |-> g \in Groups]]

Init ==
  /\ session = NoCred
  /\ local \in {NoCred, MyCred}
  /\ route = "login" /\ groupId = NoGid /\ viewUserId = NoVal
  /\ effect = NoEffect /\ group = NoGroup /\ messages = <<>> /\ loading = TRUE
  /\ groups = <<>> /\ isLoading = TRUE
  /\ balance = Render(NoGroup)
  /\ sock = "connecting" /\ listeners = [ev \in EventNames |-> <<>>]
  /\ sendBuffer = <<>>
  /\ srv = SrvInit /\ changes = 0 /\ rooms = {} /\ inbox = <<>> /\ fetches = <<>>
  /\ last = StepOf("init")
  /\ hist = NoHist /\ form = NoForm /\ timers = <<>>

\* ------------------------------------------------------ the user's moves
\* The user, on the login page, opens a URL of the application in this tab.
PageLoad ==
  /\ route = "login"
  /\ \E target \in {"login", "dashboard"} \cup Groups :
    Set(LoadPage(Begin("PageLoad"), target))

\* LoginPage.handleSubmit once the login request has been answered with
\* res.data = {user, token}: the credential is stored, the socket is
\* connected and told the user, and onNavigate (window.location.assign)
\* loads the dashboard page.  Without a user, res.data.user._id throws and
\* the catch block reports the failure.
handleSubmit(w, user, token) ==
  LET w1 == socketConnect(setAuthData(w, user, token))
  IN  IF user = NoVal THEN toast(w1, "error", "login", "Login failed")
      ELSE LoadPage(toast(socketEmit(w1, "joinUser", user),
                          "success", "login", "Welcome back"),
                    "dashboard")

\* LoginPage.handleSubmit up to the await: setLoading(true), the request.
handleSubmitStart(w) == setForm(w, TRUE, "loginLoading", TRUE)

\* variant: loading is cleared after a successful login only
handleSubmitEnd_noFinally(w, ok, user, token) ==
  IF ok /\ user # NoVal
    THEN setForm(handleSubmit(w, user, token), TRUE, "loginLoading", FALSE)
    ELSE toast(w, "error", "login", "Login failed")

\* LoginPage.handleSubmit from the await on: the try block when the request
\* was answered with res.data = {user, token}, the catch block when it was
\* refused, and the finally block, setLoading(false).
handleSubmitEnd(w, ok, user, token) ==
  LET w1 == IF ok THEN handleSubmit(w, user, token)
            ELSE toast(w, "error", "login", "Login failed")
  IN  setForm(w1, TRUE, "loginLoading", FALSE)

\* The login being accepted.
LoginSucceeds ==
  /\ route = "login"
  /\ Set(handleSubmit(Begin("LoginSucceeds"), Me, "t1"))

\* LoginPage.handleSubmit, the login being refused.
LoginFails ==
  /\ route = "login"
  /\ Set(toast(Begin("LoginFails"), "error", "login", "Login failed"))

\* Dashboard: the Link of a listed group.
OpenGroup ==
  /\ route = "dashboard"
  /\ \E i \in 1..Len(groups) :
       /\ groups[i] \in Groups
       /\ Set(Commit(MountGroup(Begin("OpenGroup"), groups[i])))

\* Dashboard: the logout button.
Logout ==
  /\ route = "dashboard"
  /\ Set(Commit(handleLogout(Begin("handleLogout"))))

\* GroupDetails: the back button, navigate('/dashboard').
BackToDashboard ==
  /\ route = "group"
  /\ Set(Commit(navigate(Begin("BackToDashboard"), "dashboard")))

\* The browser's history takes the tab from one group's URL to another's.
HistoryToGroup ==
  /\ route = "group"
  /\ \E g \in Groups \ {groupId} :
       Set(Commit(ChangeGroup(Begin("HistoryToGroup"), g)))

\* Another tab of the browser logs out: clearAuthData there empties the
\* durable store, which the tabs share.  (While this tab's session store
\* holds a credential the durable store is never read, so the step is taken
\* only when this tab relies on the durable store.)
OtherTabLogout ==
  /\ local # NoCred
  /\ session = NoCred
  /\ Set([Begin("OtherTabLogout") EXCEPT !.local = NoCred])

\* Another tab of the browser logs in with another account: setAuthData
\* there writes the durable store, which the tabs share.
OtherTabLogin ==
  /\ local # OtherCred
  /\ session = NoCred
  /\ Set([Begin("OtherTabLogin") EXCEPT !.local = OtherCred])

\* -------------------------------------------------------- the transport
RECURSIVE Flush(_, _)
Flush(w, buf) ==
  IF buf = <<>> THEN w ELSE Flush(serverReceives(w, Head(buf)), Tail(buf))

\* The socket's connection is established: the buffered emits are sent.
ConnectSucceeds ==
  /\ sock = "connecting"
  /\ Set([Flush(Begin("connect"), sendBuffer) EXCEPT
            !.sock = "connected", !.sendBuffer = <<>>])

\* The transport of the connected socket fails.  The server's socket of
\* that connection is gone, and with it its rooms and what it was sending;
\* the client's socket, created with the default options, reconnects by
\* itself, keeps its listeners, and sends on the new connection only what
\* was emitted while it was not connected.
TransportFails ==
  /\ sock = "connected"
  /\ Set([Begin("disconnect") EXCEPT !.sock = "connecting", !.rooms = {},
                                     !.inbox = <<>>])

\* The next event in flight reaches the socket and its listeners run.
DeliverEvent ==
  /\ inbox # <<>>
  /\ sock = "connected"
  /\ LET ev == Head(inbox)
         w0 == [Begin(ev.name) EXCEPT !.inbox = Tail(@)]
     IN  Set(Commit(Dispatch(w0, listeners[ev.name], ev)))

\* The response f of the i-th request in flight reaches the page and the
\* continuation of the function that awaited it runs.
ResponseOp(kind) ==
  CASE kind = "group"        -> "groupResponse"
    [] kind = "groups"       -> "groupsResponse"
    [] kind = "addExpense"   -> "addExpenseResponse"
    [] kind = "addMember"    -> "handleAddMemberResponse"
    [] kind = "removeMember" -> "handleRemoveMemberResponse"
    [] kind = "cancelInvite" -> "handleCancelInviteResponse"
    [] kind = "deleteGroup"  -> "handleDeleteGroupResponse"
    [] kind = "createGroup"  -> "createGroupResponse"
    [] kind = "invite"       -> "inviteResponse"

Respond(w, f) ==
  CASE f.kind = "group"        -> groupResponse(w, f)
    [] f.kind = "groups"       -> groupsResponse(w, f)
    [] f.kind = "addExpense"   -> addExpenseResponse(w, f)
    [] f.kind = "addMember"    -> handleAddMemberResponse(w, f)
    [] f.kind = "removeMember" -> handleRemoveMemberResponse(w, f)
    [] f.kind = "cancelInvite" -> handleCancelInviteResponse(w, f)
    [] f.kind = "deleteGroup"  -> handleDeleteGroupResponse(w, f)
    [] f.kind = "createGroup"  -> createGroupResponse(w, f)
    [] f.kind = "invite"       -> inviteResponse(w, f)

Continue(i, f) ==
  LET w0 == [Begin(ResponseOp(f.kind)) EXCEPT !.fetches = DropAt(@, i),
                                              !.last.got = f.status,
                                              !.last.stale = ~f.live]
  IN  Set(Commit(Respond(w0, f)))

\* An answered request's response reaches the page, in any order.
DeliverResponse ==
  \E i \in 1..Len(fetches) :
    /\ fetches[i].phase = "answered"
    /\ Continue(i, fetches[i])

\* ------------------------------------------------------------ the server
\* The server answers a request with its snapshot at that moment; the
\* response is then on its way back.
Exists(g) == srv[g].exists

\* The address of a member, and the member an address belongs to.
EmailOf(m) ==
  CASE m = "a" -> "a@x"
    [] m = "b" -> "b@x"
    [] m = "c" -> "c@x"
MemberOf(email) ==
  CASE email = "a@x" -> "a"
    [] email = "b@x" -> "b"
    [] email = "c@x" -> "c"

\* What an accepted request changes on the server, and what the server
\* tells the group's room about it.
ServerApplies(w, f) ==
  CASE f.kind = "addExpense" ->
         LET e == [SrvExpense(Len(w.srv[f.gid].expenses) + 1) EXCEPT
                     !.amount = f.body.amount]
         IN  BroadcastTo([w EXCEPT !.srv[f.gid].expenses = Append(@, e)],
                         f.gid, "expenseAdded", e)
    [] f.kind = "addMember" ->
         BroadcastTo([w EXCEPT !.srv[f.gid].members = @ \cup {MemberOf(f.body.email)}],
                     f.gid, "memberAdded",
                     [memberName  |-> IF f.body.name = "" THEN NoVal ELSE f.body.name,
                      memberEmail |-> f.body.email])
    [] f.kind = "removeMember" ->
         BroadcastTo([w EXCEPT !.srv[f.gid].members = @ \ {MemberOf(f.body.email)}],
                     f.gid, "memberRemoved",
                     [memberName |-> NoVal, memberEmail |-> f.body.email])
    [] f.kind = "cancelInvite" ->
         BroadcastTo([w EXCEPT !.srv[f.gid].invites = @ \ {f.body.email}],
                     f.gid, "inviteCancelled", [email |-> f.body.email])
    [] f.kind = "deleteGroup" -> [w EXCEPT !.srv[f.gid].exists = FALSE]
    [] f.kind = "createGroup" ->
         [w EXCEPT !.srv[NewGroup] =
            [members |-> {"a"}, expenses |-> <<>>, invites |-> {},
             messages |-> <<>>, exists |-> TRUE]]
    [] f.kind = "invite" -> [w EXCEPT !.srv[f.gid].invites = @ \cup {f.body.email}]
    [] OTHER -> w

\* 200, or the status the server refuses the request with: the group is
\* gone (404), or a group of that name exists (400).
StatusFor(f) ==
  IF f.kind = "groups" THEN 200
  ELSE IF f.kind = "createGroup" THEN (IF Exists(NewGroup) THEN 400 ELSE 200)
  ELSE IF Exists(f.gid) THEN 200 ELSE 404

ServerAnswers ==
  \E i \in 1..Len(fetches) :
    /\ fetches[i].phase = "sent"
    /\ fetches[i].token # NoVal
    /\ LET f  == fetches[i]
           st == StatusFor(f)
           a  == [f EXCEPT
                   !.phase = "answered", !.status = st,
                   !.data = IF st # 200 THEN NoGroup
                            ELSE IF f.kind = "group"
                              THEN GroupOf(f.gid, srv[f.gid].members,
                                           srv[f.gid].expenses, srv[f.gid].invites)
                            ELSE IF f.kind = "createGroup"
                              THEN GroupOf(NewGroup, {"a"}, <<>>, {})
                            ELSE NoGroup,
                   !.msgs = IF f.kind = "group" /\ st = 200
                              THEN srv[f.gid].messages ELSE <<>>,
                   !.list = IF f.kind = "groups"
                              THEN SelectSeq(GroupList, Exists) ELSE <<>>]
           w0 == [Begin("ServerAnswers") EXCEPT !.fetches[i] = a]
       IN  Set(IF st = 200 THEN ServerApplies(w0, f) ELSE w0)

\* The server refuses the token of a request (expired session), or fails;
\* such a response carries no snapshot, and it reaches the page.
Failures == {401, 500}

RequestFails ==
  \E i \in 1..Len(fetches), st \in Failures :
    /\ fetches[i].phase = "sent"
    /\ Continue(i, [fetches[i] EXCEPT !.phase = "answered", !.status = st])

\* The server sends an event to the sockets of room g1.
Broadcast(w, name, payload) == BroadcastTo(w, "g1", name, payload)

Changed(op) == [Begin(op) EXCEPT !.changes = @ + 1]

\* Some member of g1 adds an expense.
ServerAddsExpense ==
  /\ changes < MaxChanges
  /\ LET e == SrvExpense(Len(srv["g1"].expenses) + 1)
     IN  Set(Broadcast([Changed("ServerAddsExpense") EXCEPT
                          !.srv["g1"].expenses = Append(@, e)],
                       "expenseAdded", e))

\* Some member of g1 sends a chat message.
ServerGetsMessage ==
  /\ changes < MaxChanges
  /\ \E s \in Senders :
       LET m == [user |-> s, userId |-> s, message |-> "hi",
                 time |-> Len(srv["g1"].messages) + 1]
       IN  Set(Broadcast([Changed("ServerGetsMessage") EXCEPT
                            !.srv["g1"].messages = Append(@, m)],
                         "newMessage", m))

\* A member joins g1, a member leaves it, an invite to it is cancelled.
ServerAddsMember ==
  /\ changes < MaxChanges
  /\ "b" \notin srv["g1"].members
  /\ Set(Broadcast([Changed("ServerAddsMember") EXCEPT !.srv["g1"].members = @ \cup {"b"}],
                   "memberAdded", [memberName |-> "b", memberEmail |-> "b@x"]))

ServerRemovesMember ==
  /\ changes < MaxChanges
  /\ "b" \in srv["g1"].members
  /\ Set(Broadcast([Changed("ServerRemovesMember") EXCEPT !.srv["g1"].members = @ \ {"b"}],
                   "memberRemoved", [memberName |-> NoVal, memberEmail |-> "b@x"]))

ServerCancelsInvite ==
  /\ changes < MaxChanges
  /\ "i@x" \in srv["g1"].invites
  /\ Set(Broadcast([Changed("ServerCancelsInvite") EXCEPT !.srv["g1"].invites = @ \ {"i@x"}],
                   "inviteCancelled", [email |-> "i@x"]))

Next ==
  \/ PageLoad \/ LoginSucceeds \/ LoginFails \/ OpenGroup \/ Logout
  \/ BackToDashboard \/ HistoryToGroup \/ OtherTabLogout
  \/ ConnectSucceeds \/ DeliverEvent \/ DeliverResponse
  \/ ServerAnswers \/ RequestFails \/ ServerAddsExpense \/ ServerGetsMessage
  \/ ServerAddsMember \/ ServerRemovesMember \/ ServerCancelsInvite

Spec == Init /\ [][Next]_vars

\* ----------------------------------------------- the user at the forms
\* GroupDetails renders its forms once it is not loading and has a group.
FormsShown == route = "group" /\ ~loading /\ group.present

MessageInputs == {" hi ", "  "}

\* The chat input's onChange.
TypeMessage ==
  /\ FormsShown
  /\ \E v \in MessageInputs \ {form.newMessage} :
       Set(Commit(setForm(Begin("setNewMessage"), TRUE, "newMessage", v)))

\* The chat form's onSubmit.
SendMessage ==
  /\ FormsShown
  /\ changes < MaxChanges
  /\ Set(Commit(sendMessage(Changed("sendMessage"))))

\* The expense form's inputs (disabled while an expense is being added).
TypeExpense ==
  /\ FormsShown
  /\ ~form.isAddingExpense
  /\ \/ /\ form.description = ""
        /\ Set(Commit(setNewExpense(Begin("setNewExpense"), TRUE, "Rent", form.amount)))
     \/ /\ form.amount = ""
        /\ Set(Commit(setNewExpense(Begin("setNewExpense"), TRUE,
                                    form.description, "12.5")))

\* The expense form's onSubmit.
AddExpense ==
  /\ FormsShown
  /\ changes < MaxChanges
  /\ Set(Commit(addExpense(Changed("addExpense"))))

MemberEmailInputs == {" b@x "}

\* The Add button of the members list, and the email input of the form it
\* shows (disabled while a member is being added).
ShowAddMember ==
  /\ FormsShown
  /\ ~form.showAddMember
  /\ Set(Commit(setForm(Begin("setShowAddMember"), TRUE, "showAddMember", TRUE)))

TypeMember ==
  /\ FormsShown
  /\ form.showAddMember
  /\ ~form.addingMember
  /\ \E v \in MemberEmailInputs \ {form.newMemberEmail} :
       Set(Commit(setForm(Begin("setNewMemberEmail"), TRUE, "newMemberEmail", v)))

\* The member form's onSubmit.
AddMember ==
  /\ FormsShown
  /\ form.showAddMember
  /\ changes < MaxChanges
  /\ Set(Commit(handleAddMember(Changed("handleAddMember"))))

\* The remove button of a listed member, the cancel button of a listed
\* invite, the delete button; each asks window.confirm first.
RemoveMember ==
  /\ FormsShown
  /\ changes < MaxChanges
  /\ \E m \in group.members, confirm \in BOOLEAN :
       Set(Commit(handleRemoveMember(Changed("handleRemoveMember"),
                                     EmailOf(m), confirm)))

CancelInvite ==
  /\ FormsShown
  /\ changes < MaxChanges
  /\ \E email \in group.invites, confirm \in BOOLEAN :
       Set(Commit(handleCancelInvite(Changed("handleCancelInvite"), email, confirm)))

DeleteGroup ==
  /\ FormsShown
  /\ changes < MaxChanges
  /\ \E confirm \in BOOLEAN :
       Set(Commit(handleDeleteGroup(Changed("handleDeleteGroup"), confirm)))

\* Dashboard: the buttons that open the create form, and its inputs (which
\* the user leaves alone while a group is being created).
ShowCreateForm ==
  /\ route = "dashboard"
  /\ ~form.showCreateForm
  /\ Set(Commit(setForm(Begin("setShowCreateForm"), TRUE, "showCreateForm", TRUE)))

GroupNameInputs == {"Trip", "  "}

TypeGroupName ==
  /\ route = "dashboard"
  /\ form.showCreateForm
  /\ ~form.isCreating
  /\ \E v \in GroupNameInputs \ {form.groupName} :
       Set(Commit(setForm(Begin("setGroupName"), TRUE, "groupName", v)))

EditMembers ==
  /\ route = "dashboard"
  /\ form.showCreateForm
  /\ ~form.isCreating
  /\ \/ /\ Len(form.members) < MaxMembers
        /\ Set(Commit(addMember(Begin("addMember"))))
     \/ \E i \in 1..Len(form.members) :
          /\ Len(form.members) > 1
          /\ Set(Commit(removeMember(Begin("removeMember"), i)))
     \/ \E i \in 1..Len(form.members) :
          \E v \in MemberInputs \ {form.members[i]} :
            Set(Commit(updateMember(Begin("updateMember"), i, v)))

\* The create form's onSubmit.
CreateGroup ==
  /\ route = "dashboard"
  /\ form.showCreateForm
  /\ changes < MaxChanges
  /\ Set(Commit(handleCreateGroup(Changed("handleCreateGroup"))))

\* The timeout handleCreateGroup set for the failed invitations runs.
TimerFires ==
  /\ timers # <<>>
  /\ Set(Commit(warnEach([Begin("timeout") EXCEPT !.timers = Tail(@)],
                         Head(timers))))

\* The forms that send requests: one tab, the expense and member forms and
\* the buttons of the group view, the create form of the Dashboard, the
\* requests they send and what the server makes of them.
NextForms ==
  \/ PageLoad \/ OtherTabLogout
  \/ TypeExpense \/ AddExpense \/ ShowAddMember \/ TypeMember \/ AddMember
  \/ RemoveMember \/ CancelInvite \/ DeleteGroup
  \/ ShowCreateForm \/ TypeGroupName \/ EditMembers \/ CreateGroup
  \/ TimerFires \/ DeliverResponse \/ ServerAnswers \/ RequestFails

SpecForms == Init /\ [][NextForms]_vars

\* The login form's onSubmit; its inputs and button are disabled while
\* loading.
SubmitLogin ==
  /\ route = "login"
  /\ ~form.loginLoading
  /\ Set(Commit(handleSubmitStart(Begin("handleSubmit"))))

\* The login request is answered (with or without user and token) or
\* refused.
LoginAnswered ==
  /\ route = "login"
  /\ form.loginLoading
  /\ \E ok \in BOOLEAN, user \in {Me, NoVal}, token \in {"t1", NoVal} :
       /\ ok \/ (user = NoVal /\ token = NoVal)
       /\ Set(handleSubmitEnd(Begin("handleSubmitEnd"), ok, user, token))

\* The operations that show a busy flag: the login, the two fetches, the
\* expense and member forms of the group view and the create form.
NextBusy ==
  \/ PageLoad \/ SubmitLogin \/ LoginAnswered
  \/ TypeExpense \/ AddExpense \/ ShowAddMember \/ TypeMember \/ AddMember
  \/ ShowCreateForm \/ TypeGroupName \/ EditMembers \/ CreateGroup
  \/ TimerFires \/ DeliverResponse \/ ServerAnswers \/ RequestFails

SpecBusy == Init /\ [][NextBusy]_vars

\* One tab, its group views and the socket, whose transport may fail.
NextReconnect ==
  \/ PageLoad \/ OpenGroup \/ BackToDashboard \/ HistoryToGroup
  \/ ConnectSucceeds \/ TransportFails \/ DeliverEvent \/ DeliverResponse
  \/ ServerAnswers \/ ServerGetsMessage

SpecReconnect == Init /\ [][NextReconnect]_vars

\* The create form of the Dashboard.
NextCreate ==
  \/ PageLoad \/ Logout
  \/ ShowCreateForm \/ TypeGroupName \/ EditMembers \/ CreateGroup
  \/ TimerFires \/ DeliverResponse \/ ServerAnswers \/ RequestFails

SpecCreate == Init /\ [][NextCreate]_vars

\* removeMember called on a list of one entry, where the remove button is
\* not rendered: what the handler itself does with such a list.
CallRemoveMember ==
  /\ route = "dashboard"
  /\ form.showCreateForm
  /\ ~form.isCreating
  /\ Len(form.members) = 1
  /\ Set(Commit(removeMember(Begin("removeMember"), 1)))

\* The create form with its three list handlers called on every list.
NextMembers == NextCreate \/ CallRemoveMember

SpecMembers == Init /\ [][NextMembers]_vars

\* The chat of the group view.
NextChat ==
  \/ PageLoad \/ OtherTabLogout \/ TypeMessage \/ SendMessage
  \/ ConnectSucceeds \/ DeliverEvent \/ DeliverResponse \/ ServerAnswers

SpecChat == Init /\ [][NextChat]_vars

\* The same, with a server that answers every request with its snapshot.
NextAnswered ==
  \/ PageLoad \/ LoginSucceeds \/ LoginFails \/ OpenGroup \/ Logout
  \/ BackToDashboard \/ HistoryToGroup \/ OtherTabLogout
  \/ ConnectSucceeds \/ DeliverEvent \/ DeliverResponse
  \/ ServerAnswers \/ ServerAddsExpense \/ ServerGetsMessage
  \/ ServerAddsMember \/ ServerRemovesMember \/ ServerCancelsInvite

SpecAnswered == Init /\ [][NextAnswered]_vars

\* The tabs of one browser: the user's moves in this tab, the logins and
\* logouts of another tab, and the requests; the server's group does not
\* change.
NextTabs ==
  \/ PageLoad \/ LoginSucceeds \/ OpenGroup \/ Logout
  \/ BackToDashboard \/ HistoryToGroup \/ OtherTabLogout \/ OtherTabLogin
  \/ ConnectSucceeds \/ DeliverResponse \/ ServerAnswers \/ RequestFails

SpecTabs == Init /\ [][NextTabs]_vars

\* ------------------------------------------------ specification SpecAuth
\* The login request is answered for either account, with or without a
\* user and a token in the response.
LoginResponds ==
  /\ route = "login"
  /\ \E user \in Users \cup {NoVal}, token \in Tokens \cup {NoVal} :
       Set(handleSubmit(Begin("LoginResponds"), user, token))

\* The tab is closed and the application opened in a new one: the browser
\* has dropped the session-scoped store, the durable one is as it was.
SessionEnds ==
  /\ session # NoCred
  /\ Set(Fresh([Begin("SessionEnds") EXCEPT !.session = NoCred]))

\* Another tab of the browser logs in or out, whatever this tab's session
\* store holds: setAuthData or clearAuthData there writes the durable store.
OtherTabStores ==
  \E c \in {NoCred, MyCred, OtherCred} \ {local} :
    Set([Begin("OtherTabStores") EXCEPT !.local = c])

\* The two stores under logins, logouts, other tabs and the requests of the
\* views.
NextAuth ==
  \/ PageLoad \/ LoginResponds \/ Logout \/ OpenGroup \/ BackToDashboard
  \/ SessionEnds \/ OtherTabStores
  \/ ConnectSucceeds \/ DeliverResponse \/ ServerAnswers \/ RequestFails

SpecAuth == Init /\ [][NextAuth]_vars

\* -------------------------------------------- specification SpecBalance
\* The snapshot the balances are computed from grows one expense at a time
\* (a re-fetch or an expenseAdded merge replaced it), and every change of
\* the snapshot re-renders the members list.
BalInit ==
  /\ group \in {NoGroup,
                [GroupOf(BalGroup, MemberIds, <<>>, {}) EXCEPT !.hasExpenses = FALSE],
                GroupOf(BalGroup, MemberIds, <<>>, {})}
  /\ balance = Render(group)
  /\ session = NoCred /\ local = MyCred
  /\ route = "group" /\ groupId = BalGroup /\ viewUserId = Me
  /\ effect = NoEffect /\ messages = <<>> /\ loading = FALSE
  /\ groups = <<>> /\ isLoading = TRUE
  /\ sock = "connecting" /\ listeners = [ev \in EventNames |-> <<>>]
  /\ sendBuffer = <<>>
  /\ srv = SrvInit /\ changes = 0 /\ rooms = {} /\ inbox = <<>> /\ fetches = <<>>
  /\ last = StepOf("init")
  /\ hist = NoHist /\ form = NoForm /\ timers = <<>>

BalSnapshotGrows ==
  /\ group.present
  /\ group.hasExpenses
  /\ Len(group.expenses) < MaxExpenses
  /\ \E a \in Amounts, p \in Payers, s \in Splits :
       group' = [group EXCEPT !.expenses =
                   Append(@, [_id |-> Len(@) + 1, amount |-> a,
                              paidBy |-> p, splitAmong |-> s])]
  /\ balance' = Render(group')
  /\ UNCHANGED syncVars

BalSnapshotArrives ==
  /\ ~group.present \/ ~group.hasExpenses
  /\ group' = GroupOf(BalGroup, MemberIds, <<>>, {})
  /\ balance' = Render(group')
  /\ UNCHANGED syncVars

BalNext == BalSnapshotGrows \/ BalSnapshotArrives

SpecBalance == BalInit /\ [][BalNext]_vars

\* ------------------------------------------------ specification SpecOne
\* A re-fetch replaces the snapshot by one with a single expense, of any
\* small amount (every remainder of a division by 1, 2 or 3 in cents) or
\* of 100.00, and the members list is rendered.
OneAmounts == (0..MaxAmount) \cup {100000}

BalSnapshotReplaced ==
  /\ \E a \in OneAmounts, p \in Payers, s \in Splits :
       group' = GroupOf(BalGroup, MemberIds,
                        << [_id |-> 1, amount |-> a, paidBy |-> p,
                            splitAmong |-> s] >>, {})
  /\ balance' = Render(group')
  /\ UNCHANGED syncVars

SpecOne == BalInit /\ [][BalSnapshotReplaced]_vars

\* ------------------------------------------------ claims on the balances
\* What the claims speak of, stated without the program's loop.
RefIs(ref, m) == ref.kind # "none" /\ ref.id = m

RECURSIVE SumF(_, _)
SumF(f, S) ==
  IF S = {} THEN 0
  ELSE LET x == CHOOSE y \in S : TRUE IN f[x] + SumF(f, S \ {x})

\* round(num/den, 2) in mills, den > 0: for a magnitude, the count of cents c
\* (the whole cents below it, or one more) whose lower half-way point
\* (c - 1/2 cents) it reaches and whose upper one it does not.
RoundCents(num, den) ==
  LET a == Abs(num)
      f == a \div (10 * den)
      c == CHOOSE k \in {f, f + 1} :
             /\ (10 * k - 5) * den <= a
             /\ (10 * (k + 1) - 5) * den > a
  IN  IF num < 0 THEN -(10 * c) ELSE 10 * c

Snapshot == group.present /\ group.hasExpenses

ClaimPaid(m) ==
  LET es == group.expenses
  IN  SumF([i \in 1..Len(es) |-> es[i].amount],
           {i \in 1..Len(es) : RefIs(es[i].paidBy, m)})

ClaimShare(m) ==
  LET es == group.expenses
  IN  SumF([i \in 1..Len(es) |->
              IF Len(es[i].splitAmong) = 0 THEN 0
              ELSE RoundCents(es[i].amount, Len(es[i].splitAmong))],
           {i \in 1..Len(es) :
              /\ Len(es[i].splitAmong) > 0
              /\ \E j \in 1..Len(es[i].splitAmong) : RefIs(es[i].splitAmong[j], m)})

\* C1: for every member id and expense list, paid is the unrounded sum of the
\* amounts of every expense whose payer is that member (record or bare id),
\* whatever the expense's split-among list is.
C1_PaidSumsEveryOwnExpense ==
  Snapshot => \A m \in BalanceIds : balance[m].paid = ClaimPaid(m)

\* C2: for every member id and expense list, share is the sum, over the
\* expenses whose split-among list is non-empty and contains the member, of
\* amount / |split-among| rounded to 2 decimals, rounded per expense before
\* the sum is taken.
C2_ShareSumsRoundedShares ==
  Snapshot => \A m \in BalanceIds : balance[m].share = ClaimShare(m)

\* C2 witness: a member owes a share of two expenses, and neither quotient
\* is a whole number of cents (1000/3, 2000/3, 5/1, 5/2, ...).
C2_Witness ==
  /\ Snapshot
  /\ Len(group.expenses) = 2
  /\ \E m \in MemberIds :
       /\ \A i \in 1..2 :
            LET e == group.expenses[i]
            IN  /\ Len(e.splitAmong) > 0
                /\ \E j \in 1..Len(e.splitAmong) : RefIs(e.splitAmong[j], m)
                /\ e.amount % (10 * Len(e.splitAmong)) # 0
       /\ balance[m].share > 0

AllWholeCents == \A i \in 1..Len(group.expenses) : group.expenses[i].amount % 10 = 0

\* C3: net is round(paid - share, 2) of the returned paid and share; net > 0
\* exactly when paid exceeds share to the cent (by half a cent or more),
\* net < 0 exactly when share exceeds paid to the cent, net = 0 when they are
\* equal to the cent; with whole-cent amounts "to the cent" is plain
\* comparison; the badge shown follows the sign of net.
C3_NetIsRoundedDifference ==
  \A m \in BalanceIds :
    LET b == balance[m]
        d == b.paid - b.share
    IN  /\ b.net = RoundCents(d, 1)
        /\ (b.net > 0) <=> (d >= 5)
        /\ (b.net < 0) <=> (d <= -5)
        /\ (b.net = 0) <=> (Abs(d) < 5)
        /\ (Snapshot /\ AllWholeCents) =>
              /\ (b.net > 0) <=> (b.paid > b.share)
              /\ (b.net < 0) <=> (b.paid < b.share)
        /\ netBadge(b.net) = (IF d >= 5 THEN "owed"
                              ELSE IF d <= -5 THEN "owes" ELSE "Settled")

\* C3 witness: one render shows a member who is owed, one who owes, and one
\* whose paid and share differ by less than half a cent and is settled.
C3_Witness ==
  /\ \E m \in BalanceIds : balance[m].net > 0
  /\ \E m \in BalanceIds : balance[m].net < 0
  /\ \E m \in BalanceIds :
       balance[m].paid # balance[m].share /\ balance[m].net = 0

\* ======================================================= claims on Spec
HasCredential == getAuthToken(W) # NoVal

JoinEmitted == \E i \in 1..Len(last.emits) : last.emits[i].ev = "joinGroup"

\* C4: whenever the socket effect of a group view runs while neither store
\* holds a token, the step emits no joinGroup, calls socket.connect() not at
\* all, and ends on the login route.
C4_AbsentTokenAbortsAndRedirects ==
  last.noToken => ~JoinEmitted /\ last.connects = 0 /\ route = "login"

\* The view is mounted and its handlers are the registered ones.
ActiveView == route = "group" /\ effect.on

\* An event of that name is the next to be delivered, and the step delivers it.
Delivers(name) ==
  /\ inbox # <<>> /\ Head(inbox).name = name /\ inbox' = Tail(inbox)
  /\ last'.op = name

RECURSIVE NoTwoWithOneId(_)
NoTwoWithOneId(expenses) ==
  \/ expenses = <<>>
  \/ /\ ~HasId(Tail(expenses), Head(expenses)._id)
     /\ NoTwoWithOneId(Tail(expenses))

\* C5 (as amended): an expenseAdded event delivered to an active view that
\* holds a snapshot leaves the expense list unchanged if the identifier is in
\* it and appends the expense once at the end if not; a view that holds no
\* snapshot yet (group is null) appends nothing; in every case fetchGroupData
\* is invoked once, which sends a group request when a token is present; and
\* no step ever leaves two expenses with one identifier in the list.
C5_ExpenseMergedOnceIntoSnapshot ==
  [][ /\ NoTwoWithOneId(group'.expenses)
      /\ (Delivers("expenseAdded") /\ ActiveView /\ HasCredential) =>
           LET e == Head(inbox).payload
           IN  /\ group' = IF ~group.present THEN group
                           ELSE IF HasId(group.expenses, e._id) THEN group
                           ELSE [group EXCEPT !.expenses = Append(@, e)]
               /\ last'.calls = 1
               /\ fetches' = Append(fetches, Request("group", groupId, getAuthToken(W)))
    ]_vars

\* C5 as stated: an identifier that is in the local list leaves the list
\* unchanged, any other is appended once, and the re-fetch is started.
C5_ExpenseMergedOnce ==
  [][ (Delivers("expenseAdded") /\ ActiveView /\ HasCredential) =>
           LET e == Head(inbox).payload
           IN  /\ group'.expenses = IF HasId(group.expenses, e._id)
                                      THEN group.expenses
                                      ELSE Append(group.expenses, e)
               /\ last'.calls = 1
    ]_vars

\* The event's expense was already in the list, and the list was left alone.
C5_Witness ==
  /\ last.op = "expenseAdded" /\ ActiveView /\ ~last.dirty /\ last.calls = 1
  /\ group.present /\ group.expenses # <<>>

\* C6: a step in which a request's continuation ran with status 401 leaves
\* both stores without a credential, ends on the login route and has shown
\* a message.
C6_UnauthorizedClearsCredential ==
  last.got = 401 =>
    session = NoCred /\ local = NoCred /\ route = "login" /\ last.toasts # <<>>

\* C7: the socket holds, for each of the five event names, exactly the
\* handler of the socket effect's current run while a group view is mounted
\* and subscribed, and none otherwise; so never more than one per name, and
\* the delivery of one event runs fetchGroupData and the toast at most once.
C7_OneHandlerPerEvent ==
  /\ \A ev \in EventNames :
       listeners[ev] = IF ActiveView THEN <<effect.h>> ELSE <<>>
  /\ last.op \in EventNames => last.calls <= 1 /\ Len(last.toasts) <= 1

\* The shared socket has joined both rooms (the socket effect has run for
\* two groups), and an event was handled once.
C7_Witness ==
  /\ rooms = Groups /\ last.op = "expenseAdded" /\ last.calls = 1
  /\ ActiveView /\ \A ev \in EventNames : Len(listeners[ev]) = 1

\* C8 (under SpecAnswered, where no request fails): when the active view of
\* g1 has been handed an event that calls for a re-fetch, and nothing is in
\* flight any more (no request, no response, no event), its snapshot equals
\* the server's.
C8_RefetchReconciles ==
  ( /\ ActiveView /\ groupId = "g1" /\ hist.told
    /\ fetches = <<>> /\ inbox = <<>> ) =>
      /\ group.present
      /\ group.members = srv["g1"].members
      /\ group.expenses = srv["g1"].expenses
      /\ group.invites = srv["g1"].invites

\* C9: the continuation of a group fetch that runs after the view it was
\* issued for is gone (unmounted, or showing another group) sets no state,
\* shows no notification and navigates nowhere.
C9_LateResponseDiscarded ==
  (last.op = "groupResponse" /\ last.stale) =>
    ~last.dirty /\ last.toasts = <<>> /\ last.nav = <<>>

\* C10: a newMessage event delivered to an active view puts its message at
\* the end of the local sequence, the rest staying as it was, and shows a
\* notification exactly if the sender's id is not the view's currentUserId.
C10_MessageAppendedInDeliveryOrder ==
  [][ (Delivers("newMessage") /\ ActiveView) =>
        LET msg == Head(inbox).payload
        IN  /\ messages' = Append(messages, msg)
            /\ (last'.toasts # <<>>) <=> (msg.userId # viewUserId)
            /\ \A i \in 1..Len(last'.toasts) : last'.toasts[i].what = "newMessage"
    ]_vars

\* A second message was appended behind a first one, with a notification.
C10_Witness ==
  /\ last.op = "newMessage" /\ ActiveView /\ Len(messages) = 2
  /\ messages[1].userId = Me /\ messages[2].userId # Me
  /\ last.toasts # <<>>

\* The events that tell of a change of membership.
MemberEvents == {"memberAdded", "memberRemoved", "inviteCancelled"}

\* What the notification of a membership event names: the member's name, or
\* the email when the name is absent; for inviteCancelled the invite's email.
Named(ev) ==
  IF ev.name = "inviteCancelled" THEN ev.payload.email
  ELSE IF ev.payload.memberName # NoVal THEN ev.payload.memberName
  ELSE ev.payload.memberEmail

EntryOps == {"PageLoad", "OpenGroup", "HistoryToGroup"}
Enters == last'.op \in EntryOps /\ route' = "group"

\* The state of the socket when the entered view's effect runs: a page load
\* has just created the socket, which is connecting.
SockAtEntry == IF last'.op = "PageLoad" THEN "connecting" ELSE sock

\* The socket calls of one run of the socket effect with a token.
JoinLog ==
  (IF SockAtEntry # "connected" THEN <<"connect">> ELSE <<>>)
    \o <<"joinGroup", "on", "on", "on", "on", "on">>

JoinCount(step) ==
  Cardinality({i \in 1..Len(step.emits) : step.emits[i].ev = "joinGroup"})

\* The socket effect of the mounted view runs again for a new current user.
UserChanges ==
  /\ route = "group" /\ route' = "group" /\ ~Enters
  /\ viewUserId' # viewUserId
  /\ (session'.token # NoVal \/ local'.token # NoVal)

\* C12 (as amended): a step that enters a group view with a token calls
\* socket.connect() first, and only if the socket is not connected, then
\* emits one joinGroup with the view's group id, then registers the five
\* handlers; the same calls are made once more when the socket effect runs
\* again because the current user's id has changed while a token is
\* present; no other step emits joinGroup.
C12_JoinPerEffectRun ==
  [][ /\ (Enters \/ UserChanges) =>
           /\ last'.log = JoinLog
           /\ last'.emits = <<[ev |-> "joinGroup", arg |-> groupId']>>
      /\ ~(Enters \/ UserChanges) => JoinCount(last') = 0
    ]_vars

\* C12 as stated: the same on entry, and joinGroup is emitted by no step
\* other than an entry: one per entry.
C12_JoinOncePerEntry ==
  [][ /\ Enters =>
           /\ last'.log = JoinLog
           /\ last'.emits = <<[ev |-> "joinGroup", arg |-> groupId']>>
      /\ ~Enters => JoinCount(last') = 0
    ]_vars

\* A view was entered over the connected socket: joined without a connect.
C12_Witness ==
  /\ last.op = "HistoryToGroup" /\ route = "group" /\ effect.on
  /\ last.log = <<"joinGroup", "on", "on", "on", "on", "on">>
  /\ groupId \in rooms

\* ------------------------------------------- claims on the balances, again
HasSplit(e) == Len(e.splitAmong) > 0

\* C19: an expense whose split-among list is empty adds 0 to every member's
\* share: the share is what it is for the list without those expenses (0 if
\* every expense is such), and computeMemberBalance gives every member a
\* paid, a share and a net that are numbers.
C19_EmptySplitContributesNothing ==
  Snapshot =>
    \A m \in BalanceIds :
      LET kept == [group EXCEPT !.expenses = SelectSeq(@, HasSplit)]
      IN  /\ balance[m].share = computeMemberBalance(m, kept).share
          /\ (kept.expenses = <<>>) => balance[m].share = 0
          /\ balance[m].paid \in Nat
          /\ balance[m].share \in Nat
          /\ balance[m].net \in Int

\* C19 witness: a snapshot with an expense nobody splits, paid by a member,
\* beside an expense that member has a share of.
C19_Witness ==
  /\ Snapshot
  /\ Len(group.expenses) = 2
  /\ \E i, j \in 1..2, m \in MemberIds :
       /\ ~HasSplit(group.expenses[i])
       /\ RefIs(group.expenses[i].paidBy, m)
       /\ HasSplit(group.expenses[j])
       /\ inSplit(group.expenses[j], m)
       /\ balance[m].share > 0

NeverInvolved(m) ==
  \A i \in 1..Len(group.expenses) :
    /\ ~RefIs(group.expenses[i].paidBy, m)
    /\ \A j \in 1..Len(group.expenses[i].splitAmong) :
         ~RefIs(group.expenses[i].splitAmong[j], m)

\* C20: a member id that is the payer of no expense and in no split-among
\* list (an id unknown to the group included) has paid = 0, share = 0 and
\* net = 0, and so has every id when the group has no expense list.
C20_UninvolvedMemberIsZero ==
  \A m \in BalanceIds :
    (~Snapshot \/ NeverInvolved(m)) =>
       balance[m] = [paid |-> 0, share |-> 0, net |-> 0]

\* C20 witness: two expenses with payers and shares among the members, none
\* of them the unknown id nor one of the members.
C20_Witness ==
  /\ Snapshot
  /\ Len(group.expenses) = 2
  /\ NeverInvolved(UnknownId)
  /\ \E m \in MemberIds : NeverInvolved(m)
  /\ \A i \in 1..2 : group.expenses[i].paidBy.kind = "record"
  /\ \E m \in MemberIds : balance[m].net # 0

\* ----------------------------------------------- claims on the two stores
ReadToken == getAuthToken(W)
ReadUser  == getAuthUser(W)

LoggedIn(step) ==
  /\ step.op = "LoginResponds"
  /\ step.args.user # NoVal
  /\ step.args.token # NoVal

\* C14: getAuthToken and getAuthUser return what the session-scoped store
\* holds when it holds something and else what the durable store holds;
\* after setAuthData(u, t) with both arguments present they return t and u,
\* and they return the same once the session-scoped store alone has been
\* emptied.
C14_ReadsPreferSessionStore ==
  [][/\ ReadToken' = (IF session'.token # NoVal THEN session'.token
                       ELSE local'.token)
     /\ ReadUser' = (IF session'.user # NoVal THEN JSONparse(session'.user)
                      ELSE IF local'.user # NoVal THEN JSONparse(local'.user)
                      ELSE NoVal)
     /\ LoggedIn(last') =>
          /\ ReadToken' = last'.args.token
          /\ ReadUser' = last'.args.user
     /\ (last'.op = "SessionEnds" /\ session = local) =>
          /\ local' = local
          /\ ReadToken' = ReadToken
          /\ ReadUser' = ReadUser
    ]_vars

\* C14 witness: the session-scoped store has just been emptied while the
\* durable store holds what setAuthData("u2", "t2") writes, and the reads
\* return that token and that user.
C14_Witness ==
  /\ last.op = "SessionEnds"
  /\ session = NoCred
  /\ ReadToken = "t2"
  /\ ReadUser = "u2"
  /\ local = Stored("u2", "t2")

\* A step in which clearAuthData ran: the logout button, or fetchGroups
\* answered with 401.
Cleared(step) ==
  \/ step.op = "handleLogout"
  \/ step.op = "groupsResponse" /\ step.got = 401

\* C15: whatever the two stores hold, after clearAuthData neither holds a
\* user or a token and getAuthToken and getAuthUser return nothing; a page
\* of the dashboard or of a group opened while they are empty sends no
\* request and ends on the login route.
C15_LogoutClearsBothStores ==
  [][/\ Cleared(last') =>
          /\ session' = NoCred
          /\ local' = NoCred
          /\ ReadToken' = NoVal
          /\ ReadUser' = NoVal
     /\ (last'.op = "PageLoad" /\ session = NoCred /\ local = NoCred) =>
          /\ route' = "login"
          /\ fetches' = <<>>
          /\ last'.calls <= 1
    ]_vars

\* C15 witness: the logout button has been pressed, the stores are empty
\* and the tab is on the login page.
C15_Witness ==
  /\ last.op = "handleLogout"
  /\ session = NoCred
  /\ local = NoCred
  /\ route = "login"
  /\ last.nav = <<"login">>

\* ----------------------------------------------- claims on the requests
\* C13: every request the client has sent (group list, group create, group
\* get, group delete, member add, member remove, invite cancel, expense
\* add, invitation) carries a bearer header built from a token that was
\* present; none carries an absent (null) token.
C13_EveryRequestCarriesToken ==
  \A i \in 1..Len(fetches) : fetches[i].token # NoVal

\* --------------------------------------------- claims on the create form
RECURSIVE CountOf(_, _)
CountOf(s, x) ==
  IF s = <<>> THEN 0
  ELSE (IF Head(s) = x THEN 1 ELSE 0) + CountOf(Tail(s), x)

\* The entries of the member inputs that are not blank.
NonBlank(members) == SelectSeq(members, LAMBDA m : m \notin {"", "  "})

Toasts(step, kind, what) ==
  SelectSeq(step.toasts, LAMBDA t : t.kind = kind /\ t.what = what)

\* A step in which handleCreateGroup, its group created, came to the end of
\* its loop over the members: the response it awaited was taken and no
\* further request was sent.
CreateEnds ==
  /\ \/ last'.op = "createGroupResponse" /\ last'.got = 200
     \/ last'.op = "inviteResponse"
  /\ Len(fetches') < Len(fetches)

\* C16: once the create request has succeeded, the group is put in the
\* local list exactly once and one success message is shown, however many
\* invitations failed; a failed invitation is followed by the next one;
\* every failure is reported by a warning of its own; and the invitations
\* counted as added plus those reported as failed are as many as the
\* non-blank member entries submitted.
C16_CreateSucceedsDespiteFailedInvites ==
  [][/\ (last'.op = "handleCreateGroup" /\ Len(fetches') > Len(fetches)) =>
          Last(fetches').frame.filtered = Len(NonBlank(form.members))
     /\ (last'.op = "inviteResponse" /\ ~CreateEnds) =>
          /\ Len(fetches') = Len(fetches)
          /\ Last(fetches').kind = "invite"
     /\ CreateEnds =>
          LET fr == last'.frame
          IN  /\ Len(Toasts(last', "success", "createGroup")) = 1
              /\ Len(last'.toasts) = 1
              /\ fr.memberAddedCount + Len(fr.memberErrors) = fr.filtered
              /\ timers' = IF fr.memberErrors = <<>> THEN timers
                           ELSE Append(timers, fr.memberErrors)
              /\ ~last'.stale =>
                   /\ groups' = <<fr.newGroup>> \o groups
                   /\ CountOf(groups', fr.newGroup) = CountOf(groups, fr.newGroup) + 1
                   /\ ~form'.isCreating
     /\ last'.op = "timeout" =>
          /\ Len(last'.toasts) = Len(Head(timers))
          /\ \A i \in 1..Len(last'.toasts) :
               /\ last'.toasts[i].kind = "warn"
               /\ last'.toasts[i].arg = Head(timers)[i]
    ]_vars

\* C16 witness: a group was created with two members submitted, an
\* invitation failed, the one after it was sent and succeeded, and the
\* group is in the list with the success message shown.
C16_Witness ==
  /\ last.op = "inviteResponse"
  /\ last.got = 200
  /\ ~last.stale
  /\ last.frame.filtered = 2
  /\ last.frame.memberAddedCount = 1
  /\ Len(last.frame.memberErrors) = 1
  /\ CountOf(groups, NewGroup) = 1
  /\ Len(Toasts(last, "success", "createGroup")) = 1
  /\ timers # <<>>

\* ------------------------------------------------ claims on validation
Blank(str) == str \in {"", "  "}

\* A member entry that is not blank and is not an address: no dot follows
\* its @.
Malformed(m) == m = "a@b"

BlankName       == last'.op = "handleCreateGroup" /\ Blank(form.groupName)
MalformedMember ==
  /\ last'.op = "handleCreateGroup"
  /\ ~Blank(form.groupName)
  /\ \E i \in 1..Len(form.members) : Malformed(form.members[i])
MissingExpenseField ==
  last'.op = "addExpense" /\ (form.description = "" \/ form.amount = "")
BlankMemberEmail == last'.op = "handleAddMember" /\ Blank(form.newMemberEmail)

\* The requests in flight are the ones that were (a view that is left marks
\* its requests as orphaned).
NothingSent ==
  /\ Len(fetches') = Len(fetches)
  /\ \A i \in 1..Len(fetches) : [fetches'[i] EXCEPT !.live = TRUE]
                                 = [fetches[i] EXCEPT !.live = TRUE]
MessageShown ==
  /\ Len(last'.toasts) = 1
  /\ last'.toasts[1].kind = "error"

\* C17: a submission that fails validation sends no request and shows a
\* message: create-group with a blank name, or (a token being present)
\* with a member entry that is not an address; add-expense without a
\* description or an amount; add-member with a blank email.  The busy flag
\* of the form is false afterwards.  Create-group looks for the token
\* before it looks at the member entries: without a token it sends nothing
\* and goes to the login page, and shows no message.
C17_FailedValidationSendsNothing ==
  [][/\ BlankName => (NothingSent /\ MessageShown /\ ~form'.isCreating)
     /\ MalformedMember =>
          /\ NothingSent
          /\ ~form'.isCreating
          /\ IF getAuthToken(W) # NoVal THEN MessageShown
             ELSE last'.toasts = <<>> /\ route' = "login"
     /\ MissingExpenseField =>
          (NothingSent /\ MessageShown /\ ~form'.isAddingExpense)
     /\ BlankMemberEmail =>
          (NothingSent /\ MessageShown /\ ~form'.addingMember)
    ]_vars

\* C17 as stated: in each of the four cases nothing is sent, a message is
\* shown and the busy flag is false.
C17_FailedValidationShowsMessage ==
  [][/\ BlankName => (NothingSent /\ MessageShown /\ ~form'.isCreating)
     /\ MalformedMember => (NothingSent /\ MessageShown /\ ~form'.isCreating)
     /\ MissingExpenseField =>
          (NothingSent /\ MessageShown /\ ~form'.isAddingExpense)
     /\ BlankMemberEmail =>
          (NothingSent /\ MessageShown /\ ~form'.addingMember)
    ]_vars

\* C17 witness: the create form was submitted with a name and a member
\* entry that is not an address, a token being present: the message is
\* shown, nothing is in flight and the form is not busy.
C17_Witness ==
  /\ last.op = "handleCreateGroup"
  /\ route = "dashboard"
  /\ form.groupName = "Trip"
  /\ \E i \in 1..Len(form.members) : Malformed(form.members[i])
  /\ getAuthToken(W) # NoVal
  /\ Len(last.toasts) = 1
  /\ last.toasts[1].arg = "Please enter a valid email address"
  /\ fetches = <<>>
  /\ ~form.isCreating

\* ---------------------------------------------------- claims on the chat
SentMessages(step) == SelectSeq(step.emits, LAMBDA e : e.ev = "sendMessage")

\* C18: a send with text that is not blank emits exactly one sendMessage,
\* with the view's group id, the text without the blanks around it, the
\* current user's name and id ("Unknown" and none when no user is stored)
\* and the client's time, and empties the input in the same step; the
\* view's messages are not changed by the send.  A send with an empty or
\* blank input emits nothing and leaves the input as it is.
C18_SendEmitsOnceAndClears ==
  [][last'.op = "sendMessage" =>
       /\ messages' = messages
       /\ IF Blank(form.newMessage)
            THEN /\ last'.emits = <<>>
                 /\ form' = form
                 /\ sendBuffer' = sendBuffer
                 /\ srv' = srv
            ELSE /\ Len(SentMessages(last')) = 1
                 /\ SentMessages(last')[1].arg =
                      [groupId |-> groupId,
                       message |-> "hi",
                       user    |-> IF viewUserId = NoVal THEN "Unknown"
                                   ELSE viewUserId,
                       userId  |-> viewUserId,
                       time    |-> ClientTime]
                 /\ form.newMessage = " hi "
                 /\ form'.newMessage = ""
    ]_vars

\* C18 witness: " hi " was sent on the connected socket: the server has the
\* message "hi", the input is empty, and the view's messages are still the
\* ones it had, the newMessage event not yet delivered.
C18_Witness ==
  /\ last.op = "sendMessage"
  /\ Len(SentMessages(last)) = 1
  /\ SentMessages(last)[1].arg.message = "hi"
  /\ SentMessages(last)[1].arg.userId = Me
  /\ form.newMessage = ""
  /\ sock = "connected"
  /\ Len(srv[groupId].messages) = 1
  /\ messages = <<>>
  /\ inbox # <<>>

\* ---------------------------------------- claims on the rounded shares
OneExpense == Snapshot /\ Len(group.expenses) = 1

\* The members an expense is split among.
SplitMembers(e) ==
  {m \in BalanceIds : \E j \in 1..Len(e.splitAmong) : RefIs(e.splitAmong[j], m)}

\* C21: for an expense of amount A >= 0 split among n > 0 members, the n
\* contributions to the members' shares sum to within n * 0.005 (5n mills)
\* of A.
C21_RoundingDriftBounded ==
  OneExpense =>
    LET e == group.expenses[1]
        n == Len(e.splitAmong)
        contributions == SumF([m \in BalanceIds |-> balance[m].share],
                              SplitMembers(e))
    IN  n > 0 =>
          /\ Cardinality(SplitMembers(e)) = n
          /\ Abs(contributions - e.amount) <= 5 * n
          /\ \A m \in BalanceIds \ SplitMembers(e) : balance[m].share = 0

\* C21 witness: three members split an amount that is not a multiple of
\* three cents, and the contributions do not sum to the amount.
C21_Witness ==
  /\ OneExpense
  /\ Len(group.expenses[1].splitAmong) = 3
  /\ group.expenses[1].amount = 50
  /\ SumF([m \in BalanceIds |-> balance[m].share],
          SplitMembers(group.expenses[1])) = 60

\* C22: one expense of 100.00 split among three members, one of them the
\* payer: the payer has paid 100.00, share 33.33, net 66.67; each of the
\* other two has paid 0, share 33.33, net -33.33.
C22_ScenarioHundredByThree ==
  (/\ OneExpense
   /\ group.expenses[1].amount = 100000
   /\ Len(group.expenses[1].splitAmong) = 3
   /\ group.expenses[1].paidBy.kind # "none") =>
     LET e == group.expenses[1]
     IN  \A m \in SplitMembers(e) :
           balance[m] = IF RefIs(e.paidBy, m)
                          THEN [paid |-> 100000, share |-> 33330, net |-> 66670]
                          ELSE [paid |-> 0, share |-> 33330, net |-> -33330]

\* C22 witness: that snapshot, rendered, with a payer among the three.
C22_Witness ==
  /\ OneExpense
  /\ group.expenses[1].amount = 100000
  /\ Len(group.expenses[1].splitAmong) = 3
  /\ \E m \in MemberIds :
       /\ RefIs(group.expenses[1].paidBy, m)
       /\ balance[m].net = 66670
       /\ \A o \in MemberIds \ {m} : balance[o].net = -33330


\* ------------------------------------------ claims on the sum of the nets
\* The sums, over the members the list renders, of the balances' fields.
TotalNet   == SumF([m \in BalanceIds |-> balance[m].net], group.members)
TotalPaid  == SumF([m \in BalanceIds |-> balance[m].paid], group.members)
TotalShare == SumF([m \in BalanceIds |-> balance[m].share], group.members)

WholeCents == \A i \in 1..Len(group.expenses) : group.expenses[i].amount % 10 = 0

\* Every expense is split among somebody, paid by a member, split among
\* members, and its amount in cents is a multiple of the split's size.
EvenlySplit ==
  \A i \in 1..Len(group.expenses) :
    LET e == group.expenses[i]
    IN  /\ Len(e.splitAmong) > 0
        /\ \E m \in group.members : RefIs(e.paidBy, m)
        /\ \A j \in 1..Len(e.splitAmong) :
             \E m \in group.members : RefIs(e.splitAmong[j], m)
        /\ e.amount % (10 * Len(e.splitAmong)) = 0

C29_WitnessDrift ==
  /\ Snapshot /\ WholeCents /\ ~EvenlySplit
  /\ TotalNet # 0
  /\ TotalNet = TotalPaid - TotalShare


\* ------------------------------------------------ claims on the two stores
\* The step is a login answer whose setAuthData call got no user or no token.
IncompleteLogin ==
  /\ last'.op = "LoginResponds"
  /\ last'.args.user = NoVal \/ last'.args.token = NoVal

\* C26: setAuthData with a missing user or a missing token leaves the user
\* and token entries of both stores as they were, and what getAuthToken and
\* getAuthUser read is what they read before the call.
C26_IncompleteCredentialNotStored ==
  [][IncompleteLogin =>
       /\ session' = session
       /\ local' = local
       /\ ReadToken' = ReadToken
       /\ ReadUser' = ReadUser]_vars

\* C26 witness: a login answered with a user and no token, in a tab whose
\* durable store holds a credential that is still read.
C26_Witness ==
  /\ last.op = "LoginResponds"
  /\ last.args.user # NoVal /\ last.args.token = NoVal
  /\ session = NoCred /\ local # NoCred
  /\ ReadToken = local.token /\ ReadUser = JSONparse(local.user)


\* A store holds a token exactly when it holds a user.
PairedEntries(store) == (store.token # NoVal) <=> (store.user # NoVal)

ReadsAgree == (ReadToken # NoVal) <=> (ReadUser # NoVal)

Without(seq, i) ==
  [j \in 1..(Len(seq) - 1) |-> IF j < i THEN seq[j] ELSE seq[j + 1]]

C30_WitnessReset ==
  /\ last.op = "inviteResponse" /\ ~last.stale
  /\ last.frame.filtered = 1
  /\ CountOf(groups, NewGroup) = 1
  /\ form.members = <<"">> /\ ~form.showCreateForm /\ ~form.isCreating


\* -------------------------------------------- claims on the busy flags
\* A run of one of the operations of kinds, started by the mounted view, is
\* waiting for its response.
Running(kinds) ==
  \E i \in 1..Len(fetches) : fetches[i].live /\ fetches[i].kind \in kinds

\* No run of an operation is unfinished in the mounted view and its flag is
\* clear.
FlagsClearAtRest ==
  /\ (route = "dashboard" /\ ~Running({"groups"})) => ~isLoading
  /\ (route = "group" /\ ~Running({"group"})) => ~loading
  /\ (route = "dashboard" /\ ~Running({"createGroup", "invite"})) =>
       ~form.isCreating
  /\ (route = "group" /\ ~Running({"addExpense"})) => ~form.isAddingExpense
  /\ (route = "group" /\ ~Running({"addMember"})) => ~form.addingMember

\* The step ends a run of the operation whose continuation is op, in a view
\* that was mounted when the run began and is mounted after the step.
RunEnds(op, at) ==
  /\ last'.op = op
  /\ ~last'.stale
  /\ route' = at

\* C28: every run of a fetch or mutation operation ends with its busy flag
\* clear, whatever the outcome: when the response of a run is handled in
\* the view that began it, the flag is clear after the step; a validation
\* failure that returns before the flag is set leaves it as it was; the
\* login's flag is clear once the login request has been answered or
\* refused; and a mounted view with no unfinished run has its flag clear.
C28_BusyFlagsCleared ==
  /\ []FlagsClearAtRest
  /\ [][/\ RunEnds("groupsResponse", "dashboard") => ~isLoading'
        /\ RunEnds("groupResponse", "group") => ~loading'
        /\ ((RunEnds("createGroupResponse", "dashboard")
               \/ RunEnds("inviteResponse", "dashboard"))
             /\ Len(fetches') < Len(fetches)) => ~form'.isCreating
        /\ (RunEnds("handleCreateGroup", "dashboard")
             /\ Len(fetches') = Len(fetches)) =>
               IF Blank(form.groupName) THEN form'.isCreating = form.isCreating
               ELSE ~form'.isCreating
        /\ RunEnds("addExpenseResponse", "group") => ~form'.isAddingExpense
        /\ (RunEnds("addExpense", "group") /\ Len(fetches') = Len(fetches)) =>
               form'.isAddingExpense = form.isAddingExpense
        /\ RunEnds("handleAddMemberResponse", "group") => ~form'.addingMember
        /\ (RunEnds("handleAddMember", "group") /\ Len(fetches') = Len(fetches)) =>
               form'.addingMember = form.addingMember
        /\ last'.op = "handleSubmitEnd" => ~form'.loginLoading]_vars

\* C28 witness: the expense request of the mounted group view has failed
\* and the form is no longer busy.
C28_Witness ==
  /\ last.op = "addExpenseResponse" /\ last.got = 500 /\ ~last.stale
  /\ route = "group"
  /\ ~form.isAddingExpense

\* C28 witness of a validation failure: a malformed member entry was
\* submitted with a group name and the create form is not busy.
C28_WitnessValidation ==
  /\ last.op = "handleCreateGroup"
  /\ route = "dashboard" /\ fetches = <<>>
  /\ ~Blank(form.groupName)
  /\ Toasts(last, "error", "createGroup") # <<>>
  /\ ~form.isCreating

\* C28 witness of the login: the login was refused and the login page is
\* not loading.
C28_WitnessLogin ==
  /\ last.op = "handleSubmitEnd"
  /\ route = "login"
  /\ Toasts(last, "error", "login") # <<>>
  /\ ~form.loginLoading


\* ------------------------------------- claims on messages and on rooms
\* C24: a message a newMessage event has put in the local sequence is not
\* removed by the response of a fetch requested before the event was
\* delivered.  Stated for the first response a view receives: until then
\* the local sequence holds only what events have appended, and every
\* request in flight was sent before them or with them.
C24_DeliveredMessagesKept ==
  [][(/\ last'.op = "groupResponse" /\ ~last'.stale
      /\ route = "group" /\ route' = "group" /\ groupId' = groupId
      /\ ~group.present) =>
       \A i \in 1..Len(messages) :
         \E j \in 1..Len(messages') : messages'[j] = messages[i]]_vars

\* C25: an event published to the room of a group other than the one the
\* mounted view shows changes neither the view's expenses nor its messages
\* and shows no notification.
C25_OtherRoomsEventsIgnored ==
  [][(/\ inbox # <<>> /\ inbox' = Tail(inbox)
      /\ last'.op = Head(inbox).name
      /\ route = "group"
      /\ Head(inbox).room # groupId) =>
       /\ messages' = messages
       /\ group'.expenses = group.expenses
       /\ last'.toasts = <<>>]_vars


\* C23: while a group view is active and the socket is connected, joinGroup
\* for the view's group has been emitted on the current connection (the
\* server's socket of this connection is in the group's room), also after
\* a transport failure and a reconnection.
C23_JoinedWhileConnected ==
  (ActiveView /\ sock = "connected") => groupId \in rooms

====
